---- MODULE Spec2Model ----
(***************************************************************************)
(* Model of the GenAI cost-optimization scanner of                         *)
(* aws-samples/sample-aws-genai-ops-demos:                                 *)
(*   - the AST walker of the prompt-engineering detector (PromptAnalyzer,  *)
(*     CallCounter, _generate_findings),                                   *)
(*   - the regex detectors working on the raw text (AgentCoreDetector),    *)
(*   - the scan orchestrator (ProjectScanner) with its correlation pass.   *)
(*                                                                         *)
(* A Python syntax tree is represented by the sequence of events of its    *)
(* pre-order traversal (the order in which ast.NodeVisitor.generic_visit   *)
(* reaches the nodes): a "def", "for" or "while" token opens a node, the   *)
(* matching "end" token closes it, the other tokens are leaves.  The line  *)
(* of a node (node.lineno) is the index of its token.                      *)
(***************************************************************************)
EXTENDS Integers, Sequences, FiniteSets, TLC

VARIABLES
    task,       \* per invocation of analyze: pc, content, position, stack, result
    analyzer,   \* the PromptAnalyzer objects, by object id
    scan,       \* the state of ProjectScanner.scan_project
    corr,       \* one call of ProjectScanner._correlate_findings
    call,       \* one application of a function of the program to an input
    server      \* server.py: _latest_scan and the log of the requests served

vars == <<task, analyzer, scan, corr, call, server>>

None == "None"

\* dict.get(key, default)
Get(d, k, default) == IF k \in DOMAIN d THEN d[k] ELSE default

(***************************************************************************)
(* Bounds                                                                  *)
(***************************************************************************)
MaxLoopDocLen == 7      \* tokens of a document of the loop family
MaxBuilderDocLen == 5   \* tokens of a document of the prompt-builder family
MaxDepth == 3           \* nesting of def/for/while in a document

(***************************************************************************)
(* Syntax-tree tokens                                                      *)
(***************************************************************************)
\* names of called functions, as the components of the dotted name
LLMCallee == <<"bedrock", "converse">>
SelfLLMCallee == <<"self", "bedrock", "converse">>
OtherCallee == <<"client", "converse">>
BuilderCallee == <<"build_prompt">>
MethodBuilderCallee == <<"self", "build_prompt">>
PrintCallee == <<"print">>

TDef(n) == [k |-> "def", name |-> n]
TEnd == [k |-> "end"]
TFor == [k |-> "for"]
TWhile == [k |-> "while"]
\* a call; hdr is TRUE when the call stands in the iterable of a for or in
\* the test of a while (visited after the loop node is entered, before its body)
TCall(c, h) == [k |-> "call", callee |-> c, hdr |-> h]
\* an f-string (ast.JoinedStr): n characters of literal parts, dyn when it
\* holds a FormattedValue
TFStr(n, d) == [k |-> "fstr", n |-> n, dyn |-> d]
\* a plain string constant of n characters
TConst(n) == [k |-> "const", n |-> n]

IsOpen(t) == t.k \in {"def", "for", "while"}
IsLoopTok(t) == t.k \in {"for", "while"}

(***************************************************************************)
(* Documents: the well-formed token sequences up to a length               *)
(***************************************************************************)
RECURSIVE Depth(_)
Depth(p) ==
    IF p = <<>> THEN 0
    ELSE LET t == p[Len(p)]
             d == Depth(SubSeq(p, 1, Len(p) - 1))
         IN  IF IsOpen(t) THEN d + 1 ELSE IF t.k = "end" THEN d - 1 ELSE d

\* a call of a loop header directly follows the loop token or another header call
InHeader(p) ==
    /\ p # <<>>
    /\ \/ IsLoopTok(p[Len(p)])
       \/ p[Len(p)].k = "call" /\ p[Len(p)].hdr

Allowed(p, t) ==
    /\ IsOpen(t) => Depth(p) < MaxDepth
    /\ t.k = "end" => Depth(p) > 0
    /\ (t.k = "call" /\ t.hdr) => InHeader(p)

RECURSIVE PrefixesUpTo(_, _)
PrefixesUpTo(n, alphabet) ==
    IF n = 0 THEN {<<>>}
    ELSE LET prev == PrefixesUpTo(n - 1, alphabet)
         IN  prev \cup {Append(p, t) : <<p, t>> \in
                          {pt \in {q \in prev : Len(q) = n - 1} \X alphabet :
                              Allowed(pt[1], pt[2])}}

DocsOver(n, alphabet) == {p \in PrefixesUpTo(n, alphabet) : Depth(p) = 0}

LoopAlphabet ==
    {TDef("process_batch"), TDef("helper"), TFor, TWhile, TEnd,
     TCall(LLMCallee, FALSE), TCall(LLMCallee, TRUE), TCall(OtherCallee, FALSE)}

LiteralSizes == {3, 100, 104, 203}

BuilderAlphabet ==
    {TDef("build_prompt"), TDef("process_batch"), TEnd,
     TCall(BuilderCallee, FALSE), TCall(MethodBuilderCallee, FALSE),
     TCall(PrintCallee, FALSE), TConst(204)}
    \cup {TFStr(n, TRUE) : n \in LiteralSizes}

\* index of the "end" token closing the node opened at position i
RECURSIVE MatchFrom(_, _, _)
MatchFrom(doc, j, d) ==
    IF j > Len(doc) THEN Len(doc) + 1
    ELSE IF doc[j].k = "end" THEN (IF d = 0 THEN j ELSE MatchFrom(doc, j + 1, d - 1))
    ELSE IF IsOpen(doc[j]) THEN MatchFrom(doc, j + 1, d + 1)
    ELSE MatchFrom(doc, j + 1, d)

MatchEnd(doc, i) == MatchFrom(doc, i + 1, 0)

(***************************************************************************)
(* Python dicts keep insertion order: a sequence of key/value entries      *)
(***************************************************************************)
DictHas(d, key) == \E i \in 1..Len(d) : d[i].key = key
DictGet(d, key, default) ==
    IF DictHas(d, key) THEN d[CHOOSE i \in 1..Len(d) : d[i].key = key].val
    ELSE default
DictSet(d, key, v) ==
    IF DictHas(d, key)
    THEN [i \in 1..Len(d) |-> IF d[i].key = key THEN [key |-> key, val |-> v] ELSE d[i]]
    ELSE Append(d, [key |-> key, val |-> v])

(***************************************************************************)
(* PromptEngineeringDetector: tables and name predicates                   *)
(***************************************************************************)
LLM_API_PATTERNS ==
    {<<"bedrock", "converse">>, <<"bedrock_runtime", "converse">>,
     <<"bedrock", "invoke_model">>, <<"bedrock_runtime", "invoke_model">>,
     <<"openai", "chat", "completions", "create">>,
     <<"anthropic", "messages", "create">>}

\* "pattern in call_name" on dotted names, at the granularity of components
IsInfix(pat, name) ==
    \E i \in 0..(Len(name) - Len(pat)) : SubSeq(name, i + 1, i + Len(pat)) = pat

_is_llm_api_call(call_name) == \E pat \in LLM_API_PATTERNS : IsInfix(pat, call_name)

\* the function names of the model that match one of PROMPT_BUILDER_PATTERNS
\* ("build_prompt" matches .*prompt.* and build_.*; the others match none)
_is_prompt_builder(func_name) == func_name \in {"build_prompt"}

\* PromptAnalyzer._get_call_name: the dotted name of the callee
_get_call_name(tok) == tok.callee

\* CallCounter.visit_Call: node.func.id, or node.func.attr for a method call
CallCounterName(tok) == <<tok.callee[Len(tok.callee)]>>

\* a plain identifier as a dotted name of one component
NameOf(ident) == <<ident>>

(***************************************************************************)
(* PromptAnalyzer                                                          *)
(***************************************************************************)
StaticTokenThreshold == 50
CharsPerToken == 4
LargeLiteralLen == 100

NewPromptAnalyzer ==
    [prompt_builders |-> <<>>, function_calls |-> <<>>,
     llm_calls_in_loops |-> <<>>,
     current_function |-> None, in_loop |-> FALSE, loop_depth |-> 0]

RECURSIVE SumLiteral(_, _, _)
SumLiteral(doc, from, to) ==
    IF from > to THEN 0
    ELSE (IF doc[from].k = "fstr" THEN doc[from].n ELSE 0) + SumLiteral(doc, from + 1, to)

\* _analyze_prompt_function(node) for the def token at position i: ast.walk
\* over the whole subtree; <<>> stands for the None it returns
_analyze_prompt_function(doc, i) ==
    LET last == MatchEnd(doc, i) - 1
        sub == (i + 1)..last
        has_f_string == \E j \in sub : doc[j].k = "fstr"
        has_concatenation == \E j \in sub : doc[j].k = "concat"
        has_large_literal ==
            \E j \in sub : doc[j].k \in {"const", "fstr"} /\ doc[j].n > LargeLiteralLen
        has_dynamic_content == \E j \in sub : doc[j].k = "fstr" /\ doc[j].dyn
        total_string_content_size == SumLiteral(doc, i + 1, last)
        estimated_static_tokens == total_string_content_size \div CharsPerToken
        has_any_static_content == estimated_static_tokens > 0
    IN  IF (has_f_string \/ has_concatenation \/ has_large_literal) /\ has_any_static_content
        THEN << [line |-> i,
                 has_large_static_content |-> estimated_static_tokens > StaticTokenThreshold,
                 has_dynamic_content |-> has_dynamic_content,
                 uses_f_string |-> has_f_string,
                 uses_concatenation |-> has_concatenation,
                 estimated_static_tokens |-> estimated_static_tokens] >>
        ELSE <<>>

\* visit_FunctionDef up to generic_visit: the frame keeps old_function
EnterFunctionDef(a, doc, i) ==
    LET name == doc[i].name
        info == IF _is_prompt_builder(name) THEN _analyze_prompt_function(doc, i) ELSE <<>>
    IN  [a EXCEPT !.current_function = name,
                  !.prompt_builders = IF info # <<>> THEN DictSet(@, name, info[1]) ELSE @]

\* the function name is not restored
LeaveFunctionDef_KeepsName(a, frame) == a

\* visit_FunctionDef after generic_visit
LeaveFunctionDef(a, frame) == [a EXCEPT !.current_function = frame.old]

\* visit_For / visit_While up to generic_visit
EnterLoop(a) == [a EXCEPT !.in_loop = TRUE, !.loop_depth = @ + 1]

\* in_loop is cleared whenever a loop is left
LeaveLoop_AlwaysClears(a) == [a EXCEPT !.loop_depth = @ - 1, !.in_loop = FALSE]

\* visit_For / visit_While after generic_visit
LeaveLoop(a) ==
    LET d == a.loop_depth - 1
    IN  [a EXCEPT !.loop_depth = d, !.in_loop = IF d = 0 THEN FALSE ELSE @]

\* visit_Call
VisitCall(a, doc, i) ==
    LET func_name == _get_call_name(doc[i])
        counted == [a EXCEPT !.function_calls =
                        DictSet(@, func_name, DictGet(@, func_name, 0) + 1)]
    IN  IF _is_llm_api_call(func_name) /\ a.in_loop /\ a.current_function # None
        THEN [counted EXCEPT !.llm_calls_in_loops =
                 DictSet(@, a.current_function,
                         [line |-> i, loop_type |-> "for", api_call |-> func_name])]
        ELSE counted

\* one node of analyzer.visit(tree): the analyzer and the recursion stack
\* after the token at position i
VisitToken(a, stack, doc, i) ==
    LET t == doc[i]
    IN  CASE t.k = "def" ->
               [an |-> EnterFunctionDef(a, doc, i),
                stack |-> Append(stack, [k |-> "def", old |-> a.current_function])]
          [] t.k \in {"for", "while"} ->
               [an |-> EnterLoop(a), stack |-> Append(stack, [k |-> "loop", old |-> None])]
          [] t.k = "end" ->
               [an |-> IF stack[Len(stack)].k = "def"
                       THEN LeaveFunctionDef(a, stack[Len(stack)])
                       ELSE LeaveLoop(a),
                stack |-> SubSeq(stack, 1, Len(stack) - 1)]
          [] t.k = "call" -> [an |-> VisitCall(a, doc, i), stack |-> stack]
          [] OTHER -> [an |-> a, stack |-> stack]

(***************************************************************************)
(* CallCounter and _generate_findings                                      *)
(***************************************************************************)
RECURSIVE CountCallsFrom(_, _, _)
CountCallsFrom(doc, i, counts) ==
    IF i > Len(doc) THEN counts
    ELSE CountCallsFrom(doc, i + 1,
            IF doc[i].k = "call"
            THEN DictSet(counts, CallCounterName(doc[i]),
                         DictGet(counts, CallCounterName(doc[i]), 0) + 1)
            ELSE counts)

\* call_counter = CallCounter(); call_counter.visit(tree)
CallCounterVisit(doc) == CountCallsFrom(doc, 1, <<>>)

\* utils.file_links.create_file_link(file, line): the link names the file
\* and the line
create_file_link(file, line) == <<"kiro://file", file, line>>

BuilderFinding_GE(e, call_count, file_path) ==
    [type |-> IF e.val.estimated_static_tokens >= StaticTokenThreshold
              THEN "recurring_prompt_with_static_content"
              ELSE "prompt_builder_function_detected",
     file |-> file_path, line |-> e.val.line, function_name |-> e.key,
     call_count |-> call_count,
     estimated_static_tokens |-> e.val.estimated_static_tokens,
     service |-> "bedrock"]

BuilderFinding(e, call_count, file_path) ==
    [type |-> IF e.val.estimated_static_tokens > StaticTokenThreshold
              THEN "recurring_prompt_with_static_content"
              ELSE "prompt_builder_function_detected",
     file |-> file_path, line |-> e.val.line, function_name |-> e.key,
     call_count |-> call_count,
     estimated_static_tokens |-> e.val.estimated_static_tokens,
     service |-> "bedrock"]

LoopFinding(e, file_path) ==
    [type |-> "llm_api_call_in_loop", file |-> file_path, line |-> e.val.line,
     function_name |-> e.key, loop_type |-> e.val.loop_type, service |-> "bedrock"]

IsReported_Always(call_count) == call_count >= 0

\* the call_count > 0 test of _generate_findings
IsReported(call_count) == call_count > 0

_generate_findings(a, file_path) ==
    LET called == SelectSeq(a.prompt_builders,
                    LAMBDA e : IsReported(DictGet(a.function_calls, NameOf(e.key), 0)))
        builders == [i \in 1..Len(called) |->
                       BuilderFinding(called[i],
                                      DictGet(a.function_calls, NameOf(called[i].key), 0),
                                      file_path)]
        loops == [i \in 1..Len(a.llm_calls_in_loops) |->
                       LoopFinding(a.llm_calls_in_loops[i], file_path)]
    IN  builders \o loops

\* the loop of analyze that adds file_link to every finding with a line and a file
AddDetectorLinks(findings) ==
    [i \in 1..Len(findings) |->
        IF "line" \in DOMAIN findings[i] /\ Get(findings[i], "file", "") # ""
        THEN [x \in DOMAIN findings[i] \cup {"file_link"} |->
                 IF x = "file_link"
                 THEN create_file_link(findings[i].file, findings[i].line)
                 ELSE findings[i][x]]
        ELSE findings[i]]

(***************************************************************************)
(* Raw text: a sequence of lexemes.  A lexeme is a newline, filler, or a   *)
(* piece of text that one regular expression of a detector matches.         *)
(***************************************************************************)
NL == "\n"
LexApp == "BedrockAgentCoreApp("
LexImport == "from bedrock_agentcore import"
LexEntrypoint == "@app.entrypoint"
LexSession == "RequestContext"
LexSessionId == "context.session_id"
LexStream == "client.invoke_model_with_response_stream("
LexFiller == "x = 1"

\* content[:match.start()].count("\n") + 1
LineOf(text, i) == Cardinality({j \in 1..(i - 1) : text[j] = NL}) + 1

Matches(text, lexemes) == {i \in 1..Len(text) : text[i] \in lexemes}

SetMin(S) == CHOOSE x \in S : \A y \in S : x <= y

\* the positions of S in increasing order (re.finditer)
RECURSIVE Ascending(_)
Ascending(S) == IF S = {} THEN <<>> ELSE <<SetMin(S)>> \o Ascending(S \ {SetMin(S)})

(***************************************************************************)
(* AgentCoreDetector                                                       *)
(***************************************************************************)
\* the lexemes matched by each entry of APP_PATTERNS, in the order of the list
APP_PATTERNS == << {LexApp}, {LexImport}, {} >>

DECORATOR_PATTERNS == << [key |-> "entrypoint", val |-> {LexEntrypoint}] >>

SESSION_PATTERNS == << {LexSession}, {LexSessionId}, {} >>

AgentCoreSuffixes == {".py", ".ts", ".tsx", ".js", ".jsx", ".sh", ".bash", ".yml", ".yaml"}

\* re.search over the patterns in order: the line of the first match of the
\* first pattern that matches, 0 when none matches
RECURSIVE FirstPatternLine(_, _, _)
FirstPatternLine(text, patterns, k) ==
    IF k > Len(patterns) THEN 0
    ELSE IF Matches(text, patterns[k]) # {}
         THEN LineOf(text, SetMin(Matches(text, patterns[k])))
         ELSE FirstPatternLine(text, patterns, k + 1)

_has_agentcore_app(text) == FirstPatternLine(text, APP_PATTERNS, 1)

AppFindings(text, file_path) ==
    IF _has_agentcore_app(text) # 0
    THEN << [type |-> "agentcore_app_detected", file |-> file_path,
             line |-> _has_agentcore_app(text), service |-> "bedrock-agentcore"] >>
    ELSE <<>>

RECURSIVE _detect_decorators_from(_, _, _)
_detect_decorators_from(text, file_path, k) ==
    IF k > Len(DECORATOR_PATTERNS) THEN <<>>
    ELSE LET ms == Ascending(Matches(text, DECORATOR_PATTERNS[k].val))
         IN  [i \in 1..Len(ms) |->
                 [type |-> "agentcore_decorator", file |-> file_path,
                  line |-> LineOf(text, ms[i]),
                  decorator_type |-> DECORATOR_PATTERNS[k].key,
                  service |-> "bedrock-agentcore"]]
             \o _detect_decorators_from(text, file_path, k + 1)

_detect_decorators(text, file_path) == _detect_decorators_from(text, file_path, 1)

\* the break leaves the loop over the matches of one pattern, not the loop
\* over the patterns
RECURSIVE _detect_session_usage_from(_, _, _)
_detect_session_usage_from(text, file_path, k) ==
    IF k > Len(SESSION_PATTERNS) THEN <<>>
    ELSE (IF Matches(text, SESSION_PATTERNS[k]) # {}
          THEN << [type |-> "agentcore_session_management", file |-> file_path,
                   line |-> LineOf(text, SetMin(Matches(text, SESSION_PATTERNS[k]))),
                   service |-> "bedrock-agentcore"] >>
          ELSE <<>>)
         \o _detect_session_usage_from(text, file_path, k + 1)

_detect_session_usage(text, file_path) == _detect_session_usage_from(text, file_path, 1)

LexJwt == "customJWTAuthorizer"
LexAuthorizerConfig == "--authorizer-config"
LexStreamAsync == "app.stream_async"
LexForEvent == "for event in stream"
LexCreateTask == "asyncio.create_task"
LexThread == "threading.Thread"
LexStopRuntimeSession == "StopRuntimeSession"
LexStopSession == "stop_session"

AUTH_PATTERNS ==
    << [key |-> "jwt", val |-> {LexJwt}],
       [key |-> "iam", val |-> {}],
       [key |-> "authorizer_config", val |-> {LexAuthorizerConfig}] >>

streaming_patterns == << {}, {LexStreamAsync}, {LexForEvent} >>

async_patterns == << {LexCreateTask}, {}, {LexThread}, {} >>

\* matched with re.IGNORECASE: the first and the third pattern match the
\* same lexeme
STOP_SESSION_PATTERNS ==
    << {LexStopRuntimeSession}, {}, {LexStopRuntimeSession}, {LexStopSession}, {} >>

\* re.search over the patterns in order; the break leaves the loop over the
\* patterns, and the finding has no line
RECURSIVE _detect_auth_patterns_from(_, _, _)
_detect_auth_patterns_from(text, file_path, k) ==
    IF k > Len(AUTH_PATTERNS) THEN <<>>
    ELSE IF Matches(text, AUTH_PATTERNS[k].val) # {}
         THEN << [type |-> "agentcore_authentication", file |-> file_path,
                  auth_type |-> AUTH_PATTERNS[k].key,
                  service |-> "bedrock-agentcore"] >>
         ELSE _detect_auth_patterns_from(text, file_path, k + 1)

_detect_auth_patterns(text, file_path) == _detect_auth_patterns_from(text, file_path, 1)

\* for pattern in patterns: for match in re.finditer(...): append; break --
\* the break leaves the loop over the matches, so every pattern that matches
\* adds one finding at its first match
RECURSIVE FirstMatchOfEachPattern(_, _, _, _, _)
FirstMatchOfEachPattern(text, file_path, patterns, type, k) ==
    IF k > Len(patterns) THEN <<>>
    ELSE (IF Matches(text, patterns[k]) # {}
          THEN << [type |-> type, file |-> file_path,
                   line |-> LineOf(text, SetMin(Matches(text, patterns[k]))),
                   service |-> "bedrock-agentcore"] >>
          ELSE <<>>)
         \o FirstMatchOfEachPattern(text, file_path, patterns, type, k + 1)

_detect_streaming(text, file_path) ==
    FirstMatchOfEachPattern(text, file_path, streaming_patterns, "agentcore_streaming", 1)

_detect_async_processing(text, file_path) ==
    FirstMatchOfEachPattern(text, file_path, async_patterns, "agentcore_async_processing", 1)

\* re.search over the patterns in order; the break leaves the loop over the
\* patterns
_detect_stop_session(text, file_path) ==
    IF FirstPatternLine(text, STOP_SESSION_PATTERNS, 1) # 0
    THEN << [type |-> "agentcore_stop_session_detected", file |-> file_path,
             line |-> FirstPatternLine(text, STOP_SESSION_PATTERNS, 1),
             service |-> "bedrock-agentcore"] >>
    ELSE <<>>

LexLaunch == "agentcore launch"
LexLaunchLocal == "agentcore launch --local"
LexLaunchLocalBuild == "agentcore launch --local-build"

\* "agentcore\s+launch(?!\s+--local)", "agentcore\s+launch\s+--local" and
\* "agentcore\s+launch\s+--local-build": the second pattern also matches the
\* beginning of a --local-build command
DEPLOYMENT_PATTERNS ==
    << [key |-> "direct_deploy", val |-> {LexLaunch}],
       [key |-> "local_dev", val |-> {LexLaunchLocal, LexLaunchLocalBuild}],
       [key |-> "hybrid_build", val |-> {LexLaunchLocalBuild}] >>

RECURSIVE _detect_deployment_patterns_from(_, _, _)
_detect_deployment_patterns_from(text, file_path, k) ==
    IF k > Len(DEPLOYMENT_PATTERNS) THEN <<>>
    ELSE LET ms == Ascending(Matches(text, DEPLOYMENT_PATTERNS[k].val))
         IN  [i \in 1..Len(ms) |->
                 [type |-> "agentcore_deployment", file |-> file_path,
                  line |-> LineOf(text, ms[i]),
                  deployment_type |-> DEPLOYMENT_PATTERNS[k].key,
                  service |-> "bedrock-agentcore"]]
             \o _detect_deployment_patterns_from(text, file_path, k + 1)

_detect_deployment_patterns(text, file_path) ==
    _detect_deployment_patterns_from(text, file_path, 1)

LexCreateRuntime == "client.create_agent_runtime("
LexUpdateRuntime == "client.update_agent_runtime("
LexCloseParen == ")"
LexLifecycleArg == "lifecycleConfiguration=cfg,"
LexStringClose == "name=')',"
LexCommentClose == "# smile :)"
LexCommentOpen == "# step (1"
LexCommentQuote == "# don't"

CommentLexemes == {LexCommentClose, LexCommentOpen, LexCommentQuote}

\* the entries for CreateAgentRuntime and UpdateAgentRuntime match no lexeme
RUNTIME_API_PATTERNS ==
    << [key |-> "create_agent_runtime", val |-> {LexCreateRuntime}],
       [key |-> "update_agent_runtime", val |-> {LexUpdateRuntime}],
       [key |-> "CreateAgentRuntime", val |-> {}],
       [key |-> "UpdateAgentRuntime", val |-> {}] >>

\* the parentheses and quotes of a lexeme, in the order in which
\* _find_matching_paren reads them: it reads every character of the content,
\* those of a comment included
ScannedChars(lex) ==
    CASE lex \in {LexCreateRuntime, LexUpdateRuntime} -> <<"(">>
      [] lex = LexCloseParen -> <<")">>
      [] lex = LexStringClose -> <<"'", ")", "'">>
      [] lex = LexCommentClose -> <<")">>
      [] lex = LexCommentOpen -> <<"(">>
      [] lex = LexCommentQuote -> <<"'">>
      [] OTHER -> <<>>

\* the while loop of _find_matching_paren from character k of lexeme pos on:
\* the position of the lexeme that holds the parenthesis on which depth
\* reaches 0, and 0 (for -1) when the content ends first; inside a quote
\* every character up to the next quote is skipped
RECURSIVE FindParenFrom(_, _, _, _, _)
FindParenFrom(text, pos, k, depth, quoted) ==
    IF pos > Len(text) THEN 0
    ELSE IF k > Len(ScannedChars(text[pos]))
         THEN FindParenFrom(text, pos + 1, 1, depth, quoted)
         ELSE LET c == ScannedChars(text[pos])[k]
              IN  IF quoted
                  THEN FindParenFrom(text, pos, k + 1, depth, c # "'")
                  ELSE IF c = "(" THEN FindParenFrom(text, pos, k + 1, depth + 1, FALSE)
                  ELSE IF c = ")"
                       THEN (IF depth = 1 THEN pos
                             ELSE FindParenFrom(text, pos, k + 1, depth - 1, FALSE))
                  ELSE FindParenFrom(text, pos, k + 1, depth, TRUE)

\* start_pos is the parenthesis that ends the call lexeme at position i
_find_matching_paren(text, i) == FindParenFrom(text, i + 1, 1, 1, FALSE)

\* call_context: up to the matching parenthesis, or the next 500 characters
\* when there is none (the texts of the model are shorter than that)
call_context(text, i) ==
    IF _find_matching_paren(text, i) = 0
    THEN i..Len(text)
    ELSE i.._find_matching_paren(text, i)

has_lifecycle(text, i) == \E j \in call_context(text, i) : text[j] = LexLifecycleArg

IsPythonPath(file_path) == file_path \in {"a.py", "b.py"}

RECURSIVE _detect_runtime_api_lifecycle_from(_, _, _)
_detect_runtime_api_lifecycle_from(text, file_path, k) ==
    IF k > Len(RUNTIME_API_PATTERNS) THEN <<>>
    ELSE IF RUNTIME_API_PATTERNS[k].key \in {"CreateAgentRuntime", "UpdateAgentRuntime"}
         THEN _detect_runtime_api_lifecycle_from(text, file_path, k + 1)
         ELSE LET ms == Ascending({i \in Matches(text, RUNTIME_API_PATTERNS[k].val) :
                                      ~has_lifecycle(text, i)})
              IN  [i \in 1..Len(ms) |->
                      [type |-> "agentcore_lifecycle_missing", file |-> file_path,
                       line |-> LineOf(text, ms[i]),
                       api_call |-> RUNTIME_API_PATTERNS[k].key,
                       service |-> "bedrock-agentcore"]]
                  \o _detect_runtime_api_lifecycle_from(text, file_path, k + 1)

_detect_runtime_api_lifecycle(text, file_path) ==
    IF ~IsPythonPath(file_path) THEN <<>>
    ELSE _detect_runtime_api_lifecycle_from(text, file_path, 1)

\* AgentCoreDetector.analyze, its findings list starting from `findings`;
\* the detection steps whose patterns give no finding on a lexeme of the
\* model (lifecycle configuration values, CDK runtime) add nothing
AgentCoreAnalyzeFrom(findings, text, file_path) ==
    findings \o AppFindings(text, file_path)
             \o _detect_decorators(text, file_path)
             \o _detect_session_usage(text, file_path)
             \o _detect_deployment_patterns(text, file_path)
             \o _detect_auth_patterns(text, file_path)
             \o _detect_streaming(text, file_path)
             \o _detect_async_processing(text, file_path)
             \o _detect_runtime_api_lifecycle(text, file_path)
             \o _detect_stop_session(text, file_path)

AgentCoreAnalyze(text, file_path) == AgentCoreAnalyzeFrom(<<>>, text, file_path)

(***************************************************************************)
(* BaseDetector: the false-positive checks shared by the detectors.  A     *)
(* match is the lexeme at position match_start of the text.                *)
(***************************************************************************)
LexSQ == "'"
LexDQ == "\""
LexHash == "#"
LexTripleDQ == "\"\"\""
LexModelId == "amazon.titan-text-express-v1"
LexInvoke == "bedrock.invoke_model(modelId=\""
LexCuePattern == "pattern"
LexCueEg == "(e.g., "
LexErrorBody == "\", body=error_body)"
LexSlashes == "//"
LexBlockOpen == "/*"

\* str.count of one character (or of an escaped quote) in a lexeme
CountIn(lex, ch) ==
    CASE ch = "'" -> (IF lex = LexSQ THEN 1 ELSE 0)
      [] ch = "\"" -> (IF lex \in {LexDQ, LexInvoke, LexErrorBody} THEN 1
                       ELSE IF lex = LexTripleDQ THEN 3 ELSE 0)
      [] ch = "\"\"\"" -> (IF lex = LexTripleDQ THEN 1 ELSE 0)
      [] ch = "#" -> (IF lex = LexHash THEN 1 ELSE 0)
      [] ch = "//" -> (IF lex = LexSlashes THEN 1 ELSE 0)
      [] OTHER -> 0

RECURSIVE CountChar(_, _, _, _)
CountChar(text, from, to, ch) ==
    IF from > to THEN 0
    ELSE CountIn(text[from], ch) + CountChar(text, from + 1, to, ch)

\* the validation keywords found in the lower-cased lexeme
KeywordsIn(lex) ==
    CASE lex = LexCuePattern -> {"pattern"}
      [] lex = LexCueEg -> {"e.g."}
      [] lex = LexErrorBody -> {"error"}
      [] OTHER -> {}

validation_keywords ==
    {"error", "validate", "validation", "pattern", "format", "example", "e.g.",
     "must follow", "invalid", "required", "placeholder", "unsupported", "deprecated"}

SetMaxOr(S, default) == IF S = {} THEN default ELSE CHOOSE x \in S : \A y \in S : y <= x

\* content.rfind('\n', 0, match_start) + 1
LineStart(text, match_start) ==
    SetMaxOr({j \in 1..(match_start - 1) : text[j] = NL}, 0) + 1

\* content.find('\n', match_end), len(content) when there is none; the line
\* ends before it
LineEnd(text, match_end) ==
    LET nls == {j \in match_end..Len(text) : text[j] = NL}
    IN  IF nls = {} THEN Len(text) ELSE SetMin(nls) - 1

_is_in_string_with_validation_context(text, match_start, match_end) ==
    LET line_start == LineStart(text, match_start)
        line_end == LineEnd(text, match_end)
        single_quotes == CountChar(text, line_start, match_start - 1, "'")
                         - CountChar(text, line_start, match_start - 1, "\\'")
        double_quotes == CountChar(text, line_start, match_start - 1, "\"")
                         - CountChar(text, line_start, match_start - 1, "\\\"")
        backticks == CountChar(text, line_start, match_start - 1, "backtick")
        in_string == \/ single_quotes % 2 = 1
                     \/ double_quotes % 2 = 1
                     \/ backticks % 2 = 1
    IN  /\ in_string
        /\ \E j \in line_start..line_end : KeywordsIn(text[j]) \cap validation_keywords # {}

_is_in_comment(text, match_start) ==
    \/ CountChar(text, LineStart(text, match_start), match_start - 1, "//") > 0
    \/ CountChar(text, LineStart(text, match_start), match_start - 1, "#") > 0

_is_in_docstring(text, match_start) ==
    \/ CountChar(text, 1, match_start - 1, "\"\"\"") % 2 = 1
    \/ CountChar(text, 1, match_start - 1, "'''") % 2 = 1

_is_likely_false_positive(text, match_start, match_end) ==
    \/ _is_in_string_with_validation_context(text, match_start, match_end)
    \/ _is_in_comment(text, match_start)
    \/ _is_in_docstring(text, match_start)

(***************************************************************************)
(* BedrockDetector: its model-usage and streaming-call findings            *)
(***************************************************************************)
BedrockSuffixes == {".py", ".ts", ".tsx", ".js", ".jsx"}

\* one model-usage finding per model identifier that the false-positive
\* checks do not suppress
BedrockModelUsage(text, file_path) ==
    LET ms == Ascending({i \in Matches(text, {LexModelId}) :
                            ~_is_likely_false_positive(text, i, i + 1)})
    IN  [i \in 1..Len(ms) |->
            [type |-> "bedrock_model_usage", file |-> file_path,
             line |-> LineOf(text, ms[i]), model_id |-> text[ms[i]],
             service |-> "bedrock"]]

BedrockStreaming(text, file_path) ==
    LET ms == Ascending(Matches(text, {LexStream}))
    IN  [i \in 1..Len(ms) |->
            [type |-> "bedrock_api_call", file |-> file_path,
             line |-> LineOf(text, ms[i]), pattern |-> "streaming",
             service |-> "bedrock"]]

BedrockAnalyze(text, file_path) ==
    BedrockModelUsage(text, file_path) \o BedrockStreaming(text, file_path)

(***************************************************************************)
(* The model-identifier parser.  An identifier is a sequence of symbols:   *)
(* the separators ".", "-" and ":" and, between them, words, numeral       *)
(* groups, dates and build tags.  A field of the result is a sequence of   *)
(* symbols; Null is the field that could not be determined.                *)
(***************************************************************************)
Null == <<>>

RegionMarkers == {"global", "us", "eu", "apac"}

GlobalMarker == "global"

\* the numeral groups of a version (one or two digits)
Numerals == {"3", "4", "5"}

RECURSIVE SplitOn(_, _)
SplitOn(s, sep) ==
    LET idx == {i \in 1..Len(s) : s[i] = sep}
    IN  IF idx = {} THEN <<s>>
        ELSE <<SubSeq(s, 1, SetMin(idx) - 1)>>
             \o SplitOn(SubSeq(s, SetMin(idx) + 1, Len(s)), sep)

\* the text before the first sep, and the text after it (all of s and Null
\* when s holds no sep)
BeforeFirst(s, sep) == SplitOn(s, sep)[1]

AfterFirst(s, sep) ==
    IF Len(BeforeFirst(s, sep)) = Len(s) THEN Null
    ELSE SubSeq(s, Len(BeforeFirst(s, sep)) + 2, Len(s))

IsNumeralPart(part) == Len(part) = 1 /\ part[1] \in Numerals

\* the eight-digit release dates and the build tags (vN)
Dates == {"20250929"}

BuildTags == {"v1"}

\* a part that is one word: no separator, numeral group, date or build tag
IsWordPart(part) ==
    /\ Len(part) = 1
    /\ part[1] \notin Numerals \cup Dates \cup BuildTags \cup {".", "-", ":"}

\* sep.join(parts)
RECURSIVE JoinWith(_, _)
JoinWith(parts, sep) ==
    IF Len(parts) = 0 THEN <<>>
    ELSE IF Len(parts) = 1 THEN parts[1]
    ELSE parts[1] \o sep \o JoinWith(Tail(parts), sep)

JoinDots_Concatenated(parts) == JoinWith(parts, <<>>)

\* the numeral groups of a version joined by "."
JoinDots(parts) == JoinWith(parts, <<".">>)

\* the end of the run of numeral parts that starts at part k
RECURSIVE RunEnd(_, _)
RunEnd(parts, k) ==
    IF k < Len(parts) /\ IsNumeralPart(parts[k + 1]) THEN RunEnd(parts, k + 1) ELSE k

\* the provider of provider.rest: whatever stands before the first "."
ProviderOf_KnownOnly(rest) ==
    IF BeforeFirst(rest, ".") \in {<<"anthropic">>, <<"amazon">>}
    THEN BeforeFirst(rest, ".") ELSE Null

ProviderOf(rest) ==
    IF Len(BeforeFirst(rest, ".")) < Len(rest) THEN BeforeFirst(rest, ".") ELSE Null

Separators == {".", "-", ":"}

\* the identifier looks like provider.rest: a name, a dot, and a rest that
\* begins with a name
IsProviderDotRest(id) ==
    /\ Len(id) >= 3
    /\ id[1] \notin Separators
    /\ id[2] = "."
    /\ id[3] \notin Separators

\* the region prefix is stripped only when what remains still looks like
\* provider.rest
_parse_model_id(model_id) ==
    LET segs == SplitOn(model_id, ".")
        has_prefix == /\ Len(segs) >= 3
                      /\ Len(segs[1]) = 1
                      /\ segs[1][1] \in RegionMarkers
                      /\ IsProviderDotRest(SubSeq(model_id, 3, Len(model_id)))
        region_prefix == IF has_prefix THEN segs[1] ELSE Null
        rest == IF has_prefix THEN SubSeq(model_id, 3, Len(model_id)) ELSE model_id
        shaped == Len(BeforeFirst(rest, ".")) < Len(rest)
        provider == ProviderOf(rest)
        blob == IF shaped THEN AfterFirst(rest, ".") ELSE rest
        main == BeforeFirst(blob, ":")
        parts == SplitOn(main, "-")
        family == parts[1]
        nums == {k \in 2..Len(parts) : IsNumeralPart(parts[k])}
        first == IF nums = {} THEN 0 ELSE SetMin(nums)
        last == IF nums = {} THEN 0 ELSE RunEnd(parts, first)
        version == IF nums = {} THEN Null ELSE JoinDots(SubSeq(parts, first, last))
        tier == IF nums = {} THEN Null
                ELSE IF first > 2 /\ IsWordPart(parts[first - 1]) THEN parts[first - 1]
                ELSE IF last < Len(parts) /\ IsWordPart(parts[last + 1]) THEN parts[last + 1]
                ELSE Null
    IN  [provider |-> provider, family |-> family, version |-> version, tier |-> tier,
         region_prefix |-> region_prefix, is_cross_region |-> region_prefix # Null]

(***************************************************************************)
(* BedrockDetector: the cross-region caching finding                       *)
(***************************************************************************)
LexGlobalModel == "global.anthropic.claude-sonnet-4"
LexUsModel == "us.anthropic.claude-3-7-sonnet"
LexPlainModel == "anthropic.claude-3-7-sonnet"
LexCacheControl == "cache_control"
LexCachePoint == "cachePoint"
LexStaticPrompt == "system_prompt = \"You are a helpful assistant.\""
LexDynamicPrompt == "system_prompt = f\"Process this: {user_input}\""

ModelLexemes == {LexGlobalModel, LexUsModel, LexPlainModel}

\* the symbols of a model identifier found in a text
SymbolsOf(lex) ==
    CASE lex = LexGlobalModel ->
            <<"global", ".", "anthropic", ".", "claude", "-", "sonnet", "-", "4">>
      [] lex = LexUsModel ->
            <<"us", ".", "anthropic", ".", "claude", "-", "3", "-", "5", "-", "sonnet">>
      [] OTHER -> <<"anthropic", ".", "claude", "-", "3", "-", "5", "-", "sonnet">>

ProfileType(parsed) ==
    IF parsed.region_prefix = <<GlobalMarker>> THEN "global" ELSE "geography-specific"

CrossRegionSeverity_IgnoresStatic(profile_type, is_static) ==
    IF profile_type = "global" THEN "high" ELSE "medium"

\* the decision table of the finding's severity
CrossRegionSeverity(profile_type, is_static) ==
    IF is_static THEN "info"
    ELSE IF profile_type = "global" THEN "high"
    ELSE "medium"

_detect_caching_cross_region_antipattern(text, file_path) ==
    LET has_caching == Matches(text, {LexCacheControl, LexCachePoint}) # {}
        is_static == Matches(text, {LexDynamicPrompt}) = {}
        ms == Ascending({i \in Matches(text, ModelLexemes) :
                            _parse_model_id(SymbolsOf(text[i])).is_cross_region})
    IN  IF ~has_caching THEN <<>>
        ELSE [n \in 1..Len(ms) |->
                 LET parsed == _parse_model_id(SymbolsOf(text[ms[n]]))
                 IN  [type |-> "caching_cross_region_antipattern", file |-> file_path,
                      line |-> LineOf(text, ms[n]), model_id |-> text[ms[n]],
                      profile_type |-> ProfileType(parsed),
                      region_prefix |-> parsed.region_prefix,
                      severity |-> CrossRegionSeverity(ProfileType(parsed), is_static),
                      is_static |-> is_static, service |-> "bedrock"]]

(***************************************************************************)
(* PromptEngineeringDetector.analyze, one step per visited node            *)
(***************************************************************************)
Workers == {"w1", "w2"}

\* one PromptAnalyzer kept by the detector and used by every invocation
AnalyzerOf_Shared(w) == "w1"

\* analyze constructs its own PromptAnalyzer: the object of invocation w
AnalyzerOf(w) == w

NoContent == [path |-> "", parse |-> "ok", ast |-> <<>>, text |-> <<>>]

\* one caller of analyze: the detector and content of its current call, the
\* position of the walk, and the result returned; prev is the result of the
\* call before, overlap tells whether a step of this call ran while another
\* invocation was walking
IdleTask ==
    [pc |-> "idle", det |-> None, content |-> NoContent,
     pos |-> 0, stack |-> <<>>, result |-> <<>>, calls |-> 0,
     prev |-> <<>>, overlap |-> FALSE]

NoScan ==
    [pc |-> "off", files |-> <<>>, idx |-> 0, findings |-> <<>>, files_scanned |-> 0,
     result |-> [status |-> None]]

NoCorr == [pc |-> "off", input |-> <<>>, output |-> <<>>]

\* one application of a function of the program to an input
NoCall == [pc |-> "off", fn |-> None, input |-> <<>>, output |-> <<>>]

\* server.py at import: _latest_scan = None, and no request served yet
NoResult == [status |-> None]

NoServer == [_latest_scan |-> NoResult, log |-> <<>>]

AstContent(doc) == [path |-> "a.py", parse |-> "ok", ast |-> doc, text |-> <<>>]

\* try: tree = ast.parse(content) / except SyntaxError: return []
ParseOutcome(c) ==
    IF c.parse = "ok" THEN "tree"
    ELSE IF c.parse = "SyntaxError" THEN "empty"
    ELSE "raised"

Others(w) == Workers \ {w}

Overlaps(w) == \E v \in Others(w) : task[v].pc = "visiting"

\* analyze up to analyzer.visit(tree), keeping the analyzer of the call before
AnalyzeBegin_Reuse(w, c) ==
    /\ task[w].pc \in {"idle", "done", "raised"}
    /\ LET t == [task[w] EXCEPT !.det = "prompt_engineering", !.content = c,
                                !.prev = task[w].result, !.overlap = FALSE]
       IN  CASE ParseOutcome(c) = "empty" ->
                  /\ task' = [task EXCEPT ![w] = [t EXCEPT !.pc = "done", !.result = <<>>,
                                                           !.calls = @ + 1]]
                  /\ UNCHANGED analyzer
             [] ParseOutcome(c) = "raised" ->
                  /\ task' = [task EXCEPT ![w] = [t EXCEPT !.pc = "raised", !.result = <<>>,
                                                           !.calls = @ + 1]]
                  /\ UNCHANGED analyzer
             [] OTHER ->
                  /\ task' = [task EXCEPT ![w] = [t EXCEPT !.pc = "visiting", !.pos = 1,
                                                           !.stack = <<>>]]
                  /\ UNCHANGED analyzer
    /\ UNCHANGED <<scan, corr, call, server>>

\* analyze up to analyzer.visit(tree): ast.parse, then a new PromptAnalyzer
AnalyzeBegin(w, c) ==
    /\ task[w].pc \in {"idle", "done", "raised"}
    /\ LET t == [task[w] EXCEPT !.det = "prompt_engineering", !.content = c,
                                !.prev = task[w].result, !.overlap = FALSE]
       IN  CASE ParseOutcome(c) = "empty" ->
                  /\ task' = [task EXCEPT ![w] = [t EXCEPT !.pc = "done", !.result = <<>>,
                                                           !.calls = @ + 1]]
                  /\ UNCHANGED analyzer
             [] ParseOutcome(c) = "raised" ->
                  /\ task' = [task EXCEPT ![w] = [t EXCEPT !.pc = "raised", !.result = <<>>,
                                                           !.calls = @ + 1]]
                  /\ UNCHANGED analyzer
             [] OTHER ->
                  /\ task' = [task EXCEPT ![w] = [t EXCEPT !.pc = "visiting", !.pos = 1,
                                                           !.stack = <<>>]]
                  /\ analyzer' = [analyzer EXCEPT ![AnalyzerOf(w)] = NewPromptAnalyzer]
    /\ UNCHANGED <<scan, corr, call, server>>

\* analyzer.visit(tree): the next node
AnalyzeVisit(w) ==
    /\ task[w].pc = "visiting"
    /\ task[w].pos <= Len(task[w].content.ast)
    /\ LET r == VisitToken(analyzer[AnalyzerOf(w)], task[w].stack,
                           task[w].content.ast, task[w].pos)
       IN  /\ analyzer' = [analyzer EXCEPT ![AnalyzerOf(w)] = r.an]
           /\ task' = [task EXCEPT ![w] = [@ EXCEPT !.pos = @ + 1, !.stack = r.stack,
                                                    !.overlap = @ \/ Overlaps(w)]]
    /\ UNCHANGED <<scan, corr, call, server>>

\* the rest of analyze: the CallCounter pass, _generate_findings, the links
AnalyzeFinish(w) ==
    /\ task[w].pc = "visiting"
    /\ task[w].pos > Len(task[w].content.ast)
    /\ LET counted == [analyzer[AnalyzerOf(w)] EXCEPT
                          !.function_calls = CallCounterVisit(task[w].content.ast)]
       IN  /\ analyzer' = [analyzer EXCEPT ![AnalyzerOf(w)] = counted]
           /\ task' = [task EXCEPT ![w] =
                          [@ EXCEPT !.pc = "done", !.calls = @ + 1,
                                    !.result = AddDetectorLinks(
                                        _generate_findings(counted, task[w].content.path))]]
    /\ UNCHANGED <<scan, corr, call, server>>

(***************************************************************************)
(* The detectors as functions of the content (one whole analyze call)      *)
(***************************************************************************)
\* analyzer.visit(tree) from position i to the end of the document
RECURSIVE VisitFrom(_, _, _, _)
VisitFrom(a, stack, doc, i) ==
    IF i > Len(doc) THEN a
    ELSE LET r == VisitToken(a, stack, doc, i)
         IN  VisitFrom(r.an, r.stack, doc, i + 1)

\* the result of analyze: findings, or raised when ast.parse fails with an
\* exception that is not a SyntaxError
PromptEngineeringAnalyze(c) ==
    IF ParseOutcome(c) = "empty" THEN [raised |-> FALSE, findings |-> <<>>]
    ELSE IF ParseOutcome(c) = "raised" THEN [raised |-> TRUE, findings |-> <<>>]
    ELSE LET visited == VisitFrom(NewPromptAnalyzer, <<>>, c.ast, 1)
             counted == [visited EXCEPT !.function_calls = CallCounterVisit(c.ast)]
         IN  [raised |-> FALSE,
              findings |-> AddDetectorLinks(_generate_findings(counted, c.path))]

VSC_LLM_API_PATTERNS ==
    LLM_API_PATTERNS \cup {<<"bedrock_agentcore", "invoke_agent_runtime">>,
                           <<"invoke_agent_runtime">>}

JsonWindow == 10

\* VscDetector._generate_findings: a json.dumps call within 10 lines of an
\* LLM call, one finding per json.dumps call
VscGenerateFindings(doc, file_path) ==
    LET calls == {i \in 1..Len(doc) : doc[i].k = "call"}
        json == {i \in calls : \/ IsInfix(<<"json", "dumps">>, doc[i].callee)
                               \/ IsInfix(<<"to_json">>, doc[i].callee)}
        llm == {i \in calls : \E pat \in VSC_LLM_API_PATTERNS : IsInfix(pat, doc[i].callee)}
        near == Ascending({i \in json :
                    \E j \in llm : (IF i > j THEN i - j ELSE j - i) <= JsonWindow})
    IN  [n \in 1..Len(near) |->
            [type |-> "json_serialization_near_llm_call", file |-> file_path,
             line |-> near[n], service |-> "bedrock",
             estimated_token_savings |-> 65]]

\* VscDetector.analyze: _analyze_python for .py (ast.parse, SyntaxError caught);
\* _analyze_javascript finds nothing in a text without JSON.stringify
VscAnalyze(c, suffix) ==
    IF suffix # ".py" THEN [raised |-> FALSE, findings |-> <<>>]
    ELSE IF c.parse = "SyntaxError" THEN [raised |-> FALSE, findings |-> <<>>]
    ELSE IF c.parse # "ok" THEN [raised |-> TRUE, findings |-> <<>>]
    ELSE [raised |-> FALSE, findings |-> VscGenerateFindings(c.ast, c.path)]

(***************************************************************************)
(* ProjectScanner                                                          *)
(***************************************************************************)
Suffix(path) ==
    CASE path \in {"a.py", "b.py"} -> ".py"
      [] path = "c.ts" -> ".ts"
      [] OTHER -> ""

\* _analyze_file_internal: read the file, then every detector that can
\* analyze it, in the order of self.detectors
_analyze_file_internal(f) ==
    IF ~f.readable
    THEN [raised |-> FALSE,
          findings |-> << [error |-> "Could not read file", file |-> f.path] >>]
    ELSE LET sfx == Suffix(f.path)
             bedrock == IF sfx \in BedrockSuffixes
                        THEN BedrockAnalyze(f.text, f.path) ELSE <<>>
             agentcore == IF sfx \in AgentCoreSuffixes
                          THEN AgentCoreAnalyze(f.text, f.path) ELSE <<>>
             prompt == IF sfx = ".py" THEN PromptEngineeringAnalyze(f)
                       ELSE [raised |-> FALSE, findings |-> <<>>]
             vsc == IF sfx \in {".py", ".js", ".ts", ".jsx", ".tsx"}
                    THEN VscAnalyze(f, sfx)
                    ELSE [raised |-> FALSE, findings |-> <<>>]
         IN  [raised |-> prompt.raised \/ vsc.raised,
              findings |-> bedrock \o agentcore \o prompt.findings \o vsc.findings]

\* the keys of by_file in insertion order
RECURSIVE FileKeys(_, _)
FileKeys(findings, i) ==
    IF i > Len(findings) THEN <<>>
    ELSE LET key == Get(findings[i], "file", "unknown")
         IN  IF \E j \in 1..(i - 1) : Get(findings[j], "file", "unknown") = key
             THEN FileKeys(findings, i + 1)
             ELSE <<key>> \o FileKeys(findings, i + 1)

CrossFinding(file_path) ==
    [type |-> "cross_service_cost_impact", file |-> file_path,
     services |-> <<"bedrock", "bedrock-agentcore">>,
     pattern |-> "streaming_in_agentcore_runtime", severity |-> "medium"]

\* the two any(...) tests over the findings grouped under one file
HasCrossPattern(file_findings) ==
    /\ \E i \in 1..Len(file_findings) :
          Get(file_findings[i], "service", None) = "bedrock-agentcore"
    /\ \E i \in 1..Len(file_findings) :
          /\ Get(file_findings[i], "type", None) = "bedrock_api_call"
          /\ Get(file_findings[i], "pattern", None) = "streaming"

GroupOf_Ungrouped(findings, key) == findings

\* by_file[file_path]
GroupOf(findings, key) ==
    SelectSeq(findings, LAMBDA f : Get(f, "file", "unknown") = key)

_correlate_findings_Prepend(findings) ==
    LET keys == FileKeys(findings, 1)
        hits == SelectSeq(keys, LAMBDA key : HasCrossPattern(GroupOf(findings, key)))
        additional_findings == [i \in 1..Len(hits) |-> CrossFinding(hits[i])]
    IN  additional_findings \o findings

_correlate_findings(findings) ==
    LET keys == FileKeys(findings, 1)
        hits == SelectSeq(keys, LAMBDA key : HasCrossPattern(GroupOf(findings, key)))
        additional_findings == [i \in 1..Len(hits) |-> CrossFinding(hits[i])]
    IN  findings \o additional_findings

\* utils.file_links.add_file_links_to_findings
add_file_links_to_findings(findings) ==
    [i \in 1..Len(findings) |->
        IF Get(findings[i], "file", "") # ""
        THEN [x \in DOMAIN findings[i] \cup {"file_link"} |->
                 IF x = "file_link"
                 THEN create_file_link(findings[i].file, Get(findings[i], "line", 0))
                 ELSE findings[i][x]]
        ELSE findings[i]]

(***************************************************************************)
(* SpecWalk: one analyze call on any document                              *)
(***************************************************************************)
InitWalk ==
    /\ task = [w \in Workers |-> IdleTask]
    /\ analyzer = [w \in Workers |-> NewPromptAnalyzer]
    /\ scan = NoScan
    /\ corr = NoCorr
    /\ call = NoCall
    /\ server = NoServer

WalkBegin ==
    /\ task["w1"].pc = "idle"
    /\ \E doc \in DocsOver(MaxLoopDocLen, LoopAlphabet)
                    \cup DocsOver(MaxBuilderDocLen, BuilderAlphabet) :
          AnalyzeBegin("w1", AstContent(doc))

WalkVisit == AnalyzeVisit("w1")

WalkFinish == AnalyzeFinish("w1")

NextWalk == WalkBegin \/ WalkVisit \/ WalkFinish

SpecWalk == InitWalk /\ [][NextWalk]_vars

WalkDone == task["w1"].pc = "done"
WalkDoc == task["w1"].content.ast
WalkResult == task["w1"].result

(***************************************************************************)
(* SpecCorr: _correlate_findings on any list of findings                   *)
(***************************************************************************)
MaxFindings == 3

FindingPool ==
    {[type |-> "agentcore_app_detected", file |-> "a.py", line |-> 1,
      service |-> "bedrock-agentcore"],
     [type |-> "agentcore_authentication", file |-> "b.py",
      service |-> "bedrock-agentcore"],
     [type |-> "bedrock_api_call", file |-> "a.py", line |-> 2, pattern |-> "streaming",
      service |-> "bedrock"],
     [type |-> "bedrock_api_call", file |-> "b.py", line |-> 1, pattern |-> "streaming",
      service |-> "bedrock"],
     [type |-> "bedrock_api_call", file |-> "a.py", line |-> 3, pattern |-> "synchronous",
      service |-> "bedrock"],
     [type |-> "bedrock_api_call", line |-> 1, pattern |-> "streaming",
      service |-> "bedrock"],
     [type |-> "agentcore_decorator", line |-> 1, service |-> "bedrock-agentcore"],
     [error |-> "Could not read file", file |-> "a.py"]}

RECURSIVE SeqsUpTo(_, _)
SeqsUpTo(n, S) ==
    IF n = 0 THEN {<<>>}
    ELSE LET prev == SeqsUpTo(n - 1, S)
         IN  prev \cup {Append(q, x) : <<q, x>> \in {r \in prev : Len(r) = n - 1} \X S}

InitCorr ==
    /\ task = [w \in Workers |-> IdleTask]
    /\ analyzer = [w \in Workers |-> NewPromptAnalyzer]
    /\ scan = NoScan
    /\ corr \in {[pc |-> "call", input |-> fs, output |-> <<>>] :
                    fs \in SeqsUpTo(MaxFindings, FindingPool)}
    /\ call = NoCall
    /\ server = NoServer

Correlate ==
    /\ corr.pc = "call"
    /\ corr' = [corr EXCEPT !.pc = "done", !.output = _correlate_findings(corr.input)]
    /\ UNCHANGED <<task, analyzer, scan, call, server>>

NextCorr == Correlate

SpecCorr == InitCorr /\ [][NextCorr]_vars

(***************************************************************************)
(* SpecScan: scan_project over any sequence of discovered files            *)
(***************************************************************************)
MaxFiles == 2
MaxScanTextLen == 2

ScanPaths == {"a.py", "b.py", "c.ts"}
ScanTexts == SeqsUpTo(MaxScanTextLen, {LexApp, LexStream})

\* a function with a json.dumps call and an LLM call inside a for loop
SampleDoc ==
    << TDef("process_batch"), TFor, TCall(<<"json", "dumps">>, FALSE),
       TCall(LLMCallee, FALSE), TEnd, TEnd >>

\* the contents a discovered file can have: unreadable (not UTF-8 text), or
\* text that ast.parse accepts, rejects with a SyntaxError, or gives up on
\* with a RecursionError (too deeply nested)
FilesAt(path) ==
    {[path |-> path, readable |-> FALSE, parse |-> "ok", ast |-> <<>>, text |-> <<>>]}
    \cup
    IF Suffix(path) = ".py"
    THEN {[path |-> path, readable |-> TRUE, parse |-> pa[1], ast |-> pa[2], text |-> t] :
             pa \in {<<"ok", <<>> >>, <<"ok", SampleDoc>>, <<"SyntaxError", <<>> >>,
                     <<"RecursionError", <<>> >>},
             t \in ScanTexts}
    ELSE {[path |-> path, readable |-> TRUE, parse |-> "ok", ast |-> <<>>, text |-> t] :
             t \in ScanTexts}

\* find_scannable_files: a sequence of files of distinct paths
RECURSIVE FileSeqs(_)
FileSeqs(n) ==
    IF n = 0 THEN {<<>>}
    ELSE LET prev == FileSeqs(n - 1)
         IN  prev \cup UNION {{Append(q, f) : f \in UNION {FilesAt(p) :
                                   p \in ScanPaths \ {q[i].path : i \in 1..Len(q)}}} :
                               q \in {r \in prev : Len(r) = n - 1}}

InitScan ==
    /\ task = [w \in Workers |-> IdleTask]
    /\ analyzer = [w \in Workers |-> NewPromptAnalyzer]
    /\ scan = NoScan
    /\ corr = NoCorr
    /\ call = NoCall
    /\ server = NoServer

\* scan_project up to the loop over the scannable files
ScanStart ==
    /\ scan.pc = "off"
    /\ \E files \in FileSeqs(MaxFiles) :
          scan' = [scan EXCEPT !.pc = "scanning", !.files = files, !.idx = 1,
                               !.findings = <<>>, !.files_scanned = 0]
    /\ UNCHANGED <<task, analyzer, corr, call, server>>

\* one iteration of the loop: _analyze_file_internal and findings.extend;
\* an exception of a detector leaves scan_project
ScanFile ==
    /\ scan.pc = "scanning"
    /\ scan.idx <= Len(scan.files)
    /\ LET r == _analyze_file_internal(scan.files[scan.idx])
       IN  scan' = IF r.raised
                   THEN [scan EXCEPT !.pc = "raised"]
                   ELSE [scan EXCEPT !.findings = @ \o r.findings,
                                     !.files_scanned = @ + 1, !.idx = @ + 1]
    /\ UNCHANGED <<task, analyzer, corr, call, server>>

\* after the loop: correlate, build the result, add the file links, return
ScanFinish ==
    /\ scan.pc = "scanning"
    /\ scan.idx > Len(scan.files)
    /\ LET findings == _correlate_findings(scan.findings)
       IN  scan' = [scan EXCEPT !.pc = "returned",
                       !.result = [status |-> "success",
                                   files_scanned |-> scan.files_scanned,
                                   total_findings |-> Len(findings),
                                   findings |-> add_file_links_to_findings(findings)]]
    /\ UNCHANGED <<task, analyzer, corr, call, server>>

NextScan == ScanStart \/ ScanFile \/ ScanFinish

SpecScan == InitScan /\ [][NextScan]_vars

(***************************************************************************)
(* SpecSeq: one caller invoking the detectors' analyze one call after      *)
(* another, on the same detector instances                                 *)
(***************************************************************************)
MaxCalls == 2
MaxBodyLen == 3
MaxSeqTextLen == 2

BodyAlphabet == {TFor, TEnd, TCall(LLMCallee, FALSE)}

\* the modules that hold one function: def name(): body
FunctionDocs(names) ==
    {<<TDef(n)>> \o b \o <<TEnd>> : n \in names, b \in DocsOver(MaxBodyLen, BodyAlphabet)}

\* what ast.parse does with a text: parses it, rejects it with a SyntaxError,
\* or exhausts the parser's stack on it (MemoryError)
ParseResults == {"ok", "SyntaxError", "MemoryError"}

SeqContents ==
    {AstContent(d) : d \in FunctionDocs({"process_batch"})}
    \cup {[path |-> "a.py", parse |-> pa, ast |-> <<>>, text |-> t] :
             pa \in ParseResults, t \in SeqsUpTo(MaxSeqTextLen, {LexApp, LexEntrypoint})}

\* the caller is between two calls
CanCall(w) ==
    /\ task[w].pc \in {"idle", "done", "raised"}
    /\ task[w].calls < MaxCalls

\* AgentCoreDetector.analyze, one whole call
AgentCoreCall(w, c) ==
    /\ task' = [task EXCEPT ![w] =
                   [@ EXCEPT !.pc = "done", !.det = "agentcore", !.content = c,
                             !.pos = 0, !.stack = <<>>, !.prev = task[w].result,
                             !.result = AgentCoreAnalyze(c.text, c.path),
                             !.calls = @ + 1, !.overlap = FALSE]]
    /\ UNCHANGED <<analyzer, scan, corr, call, server>>

\* VscDetector.analyze, one whole call
VscCall(w, c) ==
    /\ LET r == VscAnalyze(c, Suffix(c.path))
       IN  task' = [task EXCEPT ![w] =
                       [@ EXCEPT !.pc = IF r.raised THEN "raised" ELSE "done",
                                 !.det = "vsc", !.content = c,
                                 !.pos = 0, !.stack = <<>>, !.prev = task[w].result,
                                 !.result = r.findings,
                                 !.calls = @ + 1, !.overlap = FALSE]]
    /\ UNCHANGED <<analyzer, scan, corr, call, server>>

InitSeq ==
    /\ task = [w \in Workers |-> IdleTask]
    /\ analyzer = [w \in Workers |-> NewPromptAnalyzer]
    /\ scan = NoScan
    /\ corr = NoCorr
    /\ call = NoCall
    /\ server = NoServer

SeqPromptBegin == CanCall("w1") /\ \E c \in SeqContents : AnalyzeBegin("w1", c)

SeqPromptVisit == AnalyzeVisit("w1")

SeqPromptFinish == AnalyzeFinish("w1")

SeqAgentCore == CanCall("w1") /\ \E c \in SeqContents : AgentCoreCall("w1", c)

SeqVsc == CanCall("w1") /\ \E c \in SeqContents : VscCall("w1", c)

NextSeq == SeqPromptBegin \/ SeqPromptVisit \/ SeqPromptFinish \/ SeqAgentCore \/ SeqVsc

SpecSeq == InitSeq /\ [][NextSeq]_vars

(***************************************************************************)
(* SpecConc: two invocations of PromptEngineeringDetector.analyze on the   *)
(* same detector, their steps interleaved                                  *)
(***************************************************************************)
ConcPath(w) == IF w = "w1" THEN "a.py" ELSE "b.py"

ConcContents(w) ==
    {[AstContent(d) EXCEPT !.path = ConcPath(w)] :
        d \in FunctionDocs({"process_batch", "helper"})}

InitConc ==
    /\ task = [w \in Workers |-> IdleTask]
    /\ analyzer = [w \in Workers |-> NewPromptAnalyzer]
    /\ scan = NoScan
    /\ corr = NoCorr
    /\ call = NoCall
    /\ server = NoServer

ConcBegin(w) == task[w].pc = "idle" /\ \E c \in ConcContents(w) : AnalyzeBegin(w, c)

ConcVisit(w) == AnalyzeVisit(w)

ConcFinish(w) == AnalyzeFinish(w)

NextConc == \E w \in Workers : ConcBegin(w) \/ ConcVisit(w) \/ ConcFinish(w)

SpecConc == InitConc /\ [][NextConc]_vars

(***************************************************************************)
(* SpecReset: initiate_password_reset of the password reset agent          *)
(* (strands_agent.py).  Cognito is the environment: forgot_password        *)
(* returns, or raises a ClientError with an error code, or fails with      *)
(* another exception.  What it does depends on the user pool (whether the  *)
(* username has an account and in which state, whether the app client      *)
(* hides that a user does not exist) and on conditions that have nothing   *)
(* to do with the account (throttling, a rejected parameter, a service or  *)
(* connection failure).                                                    *)
(***************************************************************************)
Usernames == {"alice@example.com", " alice@example.com ", "bob@example.com"}

\* str.strip()
Strip(username) ==
    CASE username = " alice@example.com " -> "alice@example.com"
      [] OTHER -> username

\* the states of an account in which Cognito accepts or refuses a reset
AccountStates == {"CONFIRMED", "FORCE_CHANGE_PASSWORD"}
NoAccount == "absent"

Conditions ==
    {"normal", "LimitExceededException", "InvalidParameterException",
     "InternalErrorException", "EndpointConnectionError"}

\* cognito_client.forgot_password(ClientId, Username): "ok" when it returns,
\* else the error it raises
forgot_password(pool, condition, username) ==
    IF condition # "normal" THEN condition
    ELSE IF pool.account[username] = NoAccount
         THEN (IF pool.prevent_user_existence_errors THEN "ok"
               ELSE "UserNotFoundException")
    ELSE IF pool.account[username] = "FORCE_CHANGE_PASSWORD"
         THEN "NotAuthorizedException"
    ELSE "ok"

ClientErrors ==
    {"UserNotFoundException", "LimitExceededException", "InvalidParameterException",
     "NotAuthorizedException", "InternalErrorException"}

CodeSentMessage(username) ==
    <<"If an account exists for '", username,
      "', a verification code has been sent. Please check your email inbox (and spam folder).">>

\* initiate_password_reset(username), one whole call
initiate_password_reset(client_id, pool, condition, username) ==
    IF client_id = ""
    THEN <<"Error: Password reset service is not configured. Please contact support.">>
    ELSE LET outcome == forgot_password(pool, condition, Strip(username))
         IN  CASE outcome = "ok" -> CodeSentMessage(username)
               [] outcome = "UserNotFoundException" -> CodeSentMessage(username)
               [] outcome = "LimitExceededException" ->
                    <<"Too many password reset attempts. Please wait a few minutes before trying again.">>
               [] outcome = "InvalidParameterException" ->
                    <<"The email address format appears to be invalid. Please provide a valid email address.">>
               [] outcome = "NotAuthorizedException" ->
                    <<"Password reset is not available for this account. Please contact support.">>
               [] outcome \in ClientErrors ->
                    <<"An error occurred while processing your request. Please try again later.">>
               [] OTHER -> <<"An unexpected error occurred. Please try again later.">>

\* a user pool in which the username has the account state `state`
PoolWith(username, state, prevent) ==
    [account |-> [u \in {Strip(x) : x \in Usernames} |->
                     IF u = Strip(username) THEN state ELSE NoAccount],
     prevent_user_existence_errors |-> prevent]

\* two runs of the same request that differ only in whether the account
\* exists: input.state is the state of the account in the run where it exists
InitReset ==
    /\ task = [w \in Workers |-> IdleTask]
    /\ analyzer = [w \in Workers |-> NewPromptAnalyzer]
    /\ scan = NoScan
    /\ corr = NoCorr
    /\ server = NoServer
    /\ call \in {[pc |-> "call", fn |-> "initiate_password_reset",
                  input |-> [client_id |-> c, username |-> u, condition |-> k,
                             state |-> s, prevent |-> p],
                  output |-> <<>>] :
                    c \in {"", "client-1"}, u \in Usernames, k \in Conditions,
                    s \in AccountStates, p \in BOOLEAN}

InitiatePasswordReset ==
    /\ call.pc = "call"
    /\ call.fn = "initiate_password_reset"
    /\ LET in == call.input
       IN  call' = [call EXCEPT
              !.pc = "done",
              !.output =
                 [exists |-> initiate_password_reset(in.client_id,
                                PoolWith(in.username, in.state, in.prevent),
                                in.condition, in.username),
                  absent |-> initiate_password_reset(in.client_id,
                                PoolWith(in.username, NoAccount, in.prevent),
                                in.condition, in.username)]]
    /\ UNCHANGED <<task, analyzer, scan, corr, server>>

NextReset == InitiatePasswordReset

SpecReset == InitReset /\ [][NextReset]_vars


(***************************************************************************)
(* SpecServer: the requests of the MCP server (server.py).  The handlers   *)
(* never suspend, so each request is one step.                             *)
(***************************************************************************)
MaxRequests == 3

\* the scannable files found under the project paths of the model; ProjectPaths
\* are the paths that exist
ProjectPaths == {"/empty", "/app", "/stream", "/deep"}
MissingPath == "/missing"

ProjectFiles(project_path) ==
    CASE project_path = "/app" ->
            << [path |-> "a.py", readable |-> TRUE, parse |-> "ok", ast |-> SampleDoc,
                text |-> <<LexApp>>] >>
      [] project_path = "/stream" ->
            << [path |-> "c.ts", readable |-> TRUE, parse |-> "ok", ast |-> <<>>,
                text |-> <<LexStream>>] >>
      [] project_path = "/deep" ->
            << [path |-> "b.py", readable |-> TRUE, parse |-> "RecursionError",
                ast |-> <<>>, text |-> <<>>] >>
      [] OTHER -> <<>>

\* the loop of ProjectScanner.scan_project over the scannable files, given
\* what _analyze_file_internal does on each of them: the first exception
\* leaves the loop
RECURSIVE ScanLoop(_, _, _)
ScanLoop(analysed, i, findings) ==
    IF i > Len(analysed) THEN [raised |-> FALSE, findings |-> findings]
    ELSE IF analysed[i].raised THEN [raised |-> TRUE, findings |-> findings]
    ELSE ScanLoop(analysed, i + 1, findings \o analysed[i].findings)

\* ProjectScanner.scan_project, one whole call: the JSON text it returns, or
\* the exception it leaves by
ScannerScanProject(project_path, estimate_only) ==
    IF project_path \notin ProjectPaths
    THEN [raised |-> FALSE,
          body |-> [error |-> "Path does not exist", project_path |-> project_path]]
    ELSE IF estimate_only
    THEN [raised |-> FALSE,
          body |-> [status |-> "estimate", project_path |-> project_path,
                    estimate |-> Len(ProjectFiles(project_path))]]
    ELSE LET files == ProjectFiles(project_path)
             loop == ScanLoop([i \in 1..Len(files) |-> _analyze_file_internal(files[i])],
                              1, <<>>)
             findings == _correlate_findings(loop.findings)
         IN  IF loop.raised THEN [raised |-> TRUE, body |-> NoResult]
             ELSE [raised |-> FALSE,
                   body |-> [status |-> "success", project_path |-> project_path,
                             files_scanned |-> Len(files),
                             total_findings |-> Len(findings),
                             findings |-> add_file_links_to_findings(findings)]]

\* ProjectScanner.analyze_file, one whole call
ScannerAnalyzeFile(project_path) ==
    IF project_path \notin ProjectPaths \/ ProjectFiles(project_path) = <<>>
    THEN [raised |-> FALSE,
          body |-> [error |-> "File does not exist", project_path |-> project_path]]
    ELSE LET r == _analyze_file_internal(ProjectFiles(project_path)[1])
             findings == _correlate_findings(r.findings)
         IN  IF r.raised THEN [raised |-> TRUE, body |-> NoResult]
             ELSE [raised |-> FALSE,
                   body |-> [status |-> "success",
                             file |-> ProjectFiles(project_path)[1].path,
                             total_findings |-> Len(findings),
                             findings |-> add_file_links_to_findings(findings)]]

Logged(request, path, estimate_only, r) ==
    [request |-> request, path |-> path, estimate_only |-> estimate_only,
     raised |-> r.raised, response |-> r.body]

InitServer ==
    /\ task = [w \in Workers |-> IdleTask]
    /\ analyzer = [w \in Workers |-> NewPromptAnalyzer]
    /\ scan = NoScan
    /\ corr = NoCorr
    /\ call = NoCall
    /\ server = NoServer

\* the scan_project tool: an exception of the scanner leaves the handler
\* before the assignment to _latest_scan
scan_project(path, estimate_only) ==
    /\ Len(server.log) < MaxRequests
    /\ LET result == ScannerScanProject(path, estimate_only)
       IN  server' = [server EXCEPT
                         !._latest_scan = IF ~result.raised /\ ~estimate_only
                                          THEN result.body ELSE @,
                         !.log = Append(@, Logged("scan_project", path, estimate_only, result))]
    /\ UNCHANGED <<task, analyzer, scan, corr, call>>

\* the analyze_file tool; the path names the file of the project
analyze_file(path) ==
    /\ Len(server.log) < MaxRequests
    /\ server' = [server EXCEPT
                     !.log = Append(@, Logged("analyze_file", path, FALSE,
                                              ScannerAnalyzeFile(path)))]
    /\ UNCHANGED <<task, analyzer, scan, corr, call>>

\* the scan://latest resource; a stored JSON text is never empty
get_latest_scan ==
    /\ Len(server.log) < MaxRequests
    /\ server' = [server EXCEPT
                     !.log = Append(@, Logged("scan://latest", "", FALSE,
                                [raised |-> FALSE,
                                 body |-> IF server._latest_scan # NoResult
                                          THEN server._latest_scan
                                          ELSE [error |-> "No scans performed yet"]]))]
    /\ UNCHANGED <<task, analyzer, scan, corr, call>>

ServerScanProject ==
    \E path \in ProjectPaths \cup {MissingPath}, estimate_only \in BOOLEAN :
        scan_project(path, estimate_only)

ServerAnalyzeFile == \E path \in ProjectPaths \cup {MissingPath} : analyze_file(path)

NextServer == ServerScanProject \/ ServerAnalyzeFile \/ get_latest_scan

SpecServer == InitServer /\ [][NextServer]_vars


(***************************************************************************)
(* SpecFilter: BedrockDetector's model-usage detection applied to a text   *)
(***************************************************************************)
MaxFilterLen == 4

FilterAlphabet ==
    {NL, LexSQ, LexDQ, LexHash, LexTripleDQ, LexModelId, LexInvoke,
     LexCuePattern, LexCueEg, LexErrorBody}

InitFilter ==
    /\ task = [w \in Workers |-> IdleTask]
    /\ analyzer = [w \in Workers |-> NewPromptAnalyzer]
    /\ scan = NoScan
    /\ corr = NoCorr
    /\ server = NoServer
    /\ call \in {[pc |-> "call", fn |-> "bedrock_model_usage", input |-> t, output |-> <<>>] :
                    t \in SeqsUpTo(MaxFilterLen, FilterAlphabet)}

DetectModelUsage ==
    /\ call.pc = "call"
    /\ call.fn = "bedrock_model_usage"
    /\ call' = [call EXCEPT !.pc = "done",
                            !.output = BedrockModelUsage(call.input, "a.py")]
    /\ UNCHANGED <<task, analyzer, scan, corr, server>>

NextFilter == DetectModelUsage

SpecFilter == InitFilter /\ [][NextFilter]_vars

(***************************************************************************)
(* SpecAgentCore: AgentCoreDetector.analyze applied to a text              *)
(***************************************************************************)
MaxAgentTextLen == 3

AgentAlphabet ==
    {NL, LexFiller, LexApp, LexEntrypoint, LexSession, LexSessionId, LexJwt,
     LexAuthorizerConfig, LexStreamAsync, LexForEvent, LexCreateTask, LexThread,
     LexStopRuntimeSession, LexStopSession, LexLaunch, LexLaunchLocal,
     LexLaunchLocalBuild}

InitAgentCore ==
    /\ task = [w \in Workers |-> IdleTask]
    /\ analyzer = [w \in Workers |-> NewPromptAnalyzer]
    /\ scan = NoScan
    /\ corr = NoCorr
    /\ server = NoServer
    /\ call \in {[pc |-> "call", fn |-> "agentcore_analyze", input |-> t, output |-> <<>>] :
                    t \in SeqsUpTo(MaxAgentTextLen, AgentAlphabet)}

AnalyzeAgentCore ==
    /\ call.pc = "call"
    /\ call.fn = "agentcore_analyze"
    /\ call' = [call EXCEPT !.pc = "done",
                            !.output = AgentCoreAnalyze(call.input, "a.py")]
    /\ UNCHANGED <<task, analyzer, scan, corr, server>>

NextAgentCore == AnalyzeAgentCore

SpecAgentCore == InitAgentCore /\ [][NextAgentCore]_vars


(***************************************************************************)
(* SpecRuntimeApi: AgentCoreDetector.analyze applied to a text that holds  *)
(* create_agent_runtime / update_agent_runtime calls                        *)
(***************************************************************************)
MaxRuntimeTextLen == 5

RuntimeAlphabet ==
    {NL, LexCreateRuntime, LexUpdateRuntime, LexCloseParen, LexLifecycleArg,
     LexStringClose, LexCommentClose, LexCommentOpen, LexCommentQuote}

RuntimePaths == {"a.py", "c.ts"}

\* a comment runs to the end of its line
CommentsEndLines(text) ==
    \A i \in 1..Len(text) :
        text[i] \in CommentLexemes => (i = Len(text) \/ text[i + 1] = NL)

InitRuntimeApi ==
    /\ task = [w \in Workers |-> IdleTask]
    /\ analyzer = [w \in Workers |-> NewPromptAnalyzer]
    /\ scan = NoScan
    /\ corr = NoCorr
    /\ server = NoServer
    /\ call \in {[pc |-> "call", fn |-> "runtime_api",
                  input |-> [text |-> t, path |-> p], output |-> <<>>] :
                    t \in {u \in SeqsUpTo(MaxRuntimeTextLen, RuntimeAlphabet) :
                              CommentsEndLines(u)},
                    p \in RuntimePaths}

AnalyzeRuntimeApi ==
    /\ call.pc = "call"
    /\ call.fn = "runtime_api"
    /\ call' = [call EXCEPT !.pc = "done",
                            !.output = AgentCoreAnalyze(call.input.text, call.input.path)]
    /\ UNCHANGED <<task, analyzer, scan, corr, server>>

NextRuntimeApi == AnalyzeRuntimeApi

SpecRuntimeApi == InitRuntimeApi /\ [][NextRuntimeApi]_vars


(***************************************************************************)
(* SpecChecks: the false-positive checks of BaseDetector applied to one    *)
(* match of a text                                                          *)
(***************************************************************************)
MaxCheckTextLen == 5

CheckAlphabet ==
    {NL, LexSQ, LexDQ, LexHash, LexSlashes, LexTripleDQ, LexBlockOpen,
     LexModelId, LexCuePattern}

CheckPaths == {"a.py", "c.ts"}

InitChecks ==
    /\ task = [w \in Workers |-> IdleTask]
    /\ analyzer = [w \in Workers |-> NewPromptAnalyzer]
    /\ scan = NoScan
    /\ corr = NoCorr
    /\ server = NoServer
    /\ \E t \in SeqsUpTo(MaxCheckTextLen, CheckAlphabet) :
           \E m \in Matches(t, {LexModelId}) :
               \E p \in CheckPaths :
                   call = [pc |-> "call", fn |-> "false_positive",
                           input |-> [text |-> t, match_start |-> m, path |-> p],
                           output |-> <<>>]

\* _is_likely_false_positive on the match, with the answer of each check
CheckFalsePositive ==
    /\ call.pc = "call"
    /\ call.fn = "false_positive"
    /\ LET text == call.input.text
           m == call.input.match_start
       IN  call' = [call EXCEPT
               !.pc = "done",
               !.output = [in_string |-> _is_in_string_with_validation_context(text, m, m + 1),
                           in_comment |-> _is_in_comment(text, m),
                           in_docstring |-> _is_in_docstring(text, m),
                           likely |-> _is_likely_false_positive(text, m, m + 1)]]
    /\ UNCHANGED <<task, analyzer, scan, corr, server>>

NextChecks == CheckFalsePositive

SpecChecks == InitChecks /\ [][NextChecks]_vars


(***************************************************************************)
(* SpecOrchestrator: extract_service_lifecycle of the lifecycle tracker.   *)
(* The data extractor and the database operations are its environment: an  *)
(* outcome is what one of them returns, or that it raises an Exception.     *)
(***************************************************************************)
ServiceNames == {"lambda", "eks"}
RefreshOrigins == {"manual", "scheduled"}

\* DataExtractor() raises, extract_service_data raises, returns None, a
\* failure, a success without items, a success with items
ExtractionOutcomes == {"ctor_raise", "raise", "none", "fail", "empty", "items"}

\* store_deprecation_data returns success, a failure, a dictionary without
\* 'success', None, or raises
StorageOutcomes == {"ok", "fail", "nokey", "none", "raise"}

\* update_service_metadata returns success, a failure, or raises
MetadataOutcomes == {"ok", "fail", "raise"}

\* the number of update_service_metadata calls of one run is at most 2
MaxUpdateCalls == 2

ExtractionResult(outcome, service_name) ==
    CASE outcome = "fail" ->
             [success |-> FALSE, service_name |-> service_name, error |-> "no urls"]
      [] outcome = "empty" ->
             [success |-> TRUE, service_name |-> service_name, items |-> <<>>,
              extraction_duration |-> 1]
      [] outcome = "items" ->
             [success |-> TRUE, service_name |-> service_name, items |-> <<"item">>,
              extraction_duration |-> 1]

CouldNotUpdate == [success |-> FALSE, error |-> "Could not update metadata"]

\* try: metadata_result = update_service_metadata(...)
\* except: metadata_result = {"success": False, "error": ...}
TryUpdate(outcome) ==
    IF outcome = "raise" THEN CouldNotUpdate ELSE [success |-> outcome = "ok"]

\* the outer handler taken away: the exception leaves the function
ExceptionHandler_Reraises(service_name, refresh_origin, o, updates, error) ==
    [raised |-> TRUE, result |-> [error |-> error], updates |-> updates]

\* except Exception as e: one more guarded update, then the failure result
ExceptionHandler(service_name, refresh_origin, o, updates, error) ==
    [raised |-> FALSE,
     updates |-> Append(updates, [service_name |-> service_name, success |-> FALSE,
                                  refresh_origin |-> refresh_origin]),
     result |-> [success |-> FALSE, service_name |-> service_name,
                 refresh_origin |-> refresh_origin, error |-> error,
                 metadata_update |-> TryUpdate(o.meta[Len(updates) + 1]),
                 extraction_date |-> "now"]]

\* extract_service_lifecycle under the outcomes o of its collaborators:
\* whether it raised, what it returned and the update_service_metadata calls
\* it made
extract_service_lifecycle(service_name, refresh_origin, o) ==
    IF o.extraction \in {"ctor_raise", "raise"}
    THEN ExceptionHandler(service_name, refresh_origin, o, <<>>, "Extraction failed: extract")
    ELSE IF o.extraction = "none"
    THEN ExceptionHandler(service_name, refresh_origin, o, <<>>, "Extraction failed: AttributeError")
    ELSE LET extraction_result == ExtractionResult(o.extraction, service_name)
         IN  IF ~extraction_result.success
             THEN [raised |-> FALSE,
                   updates |-> << [service_name |-> service_name, success |-> FALSE] >>,
                   result |-> [metadata_update |-> TryUpdate(o.meta[1])] @@ extraction_result]
             ELSE
             IF extraction_result.items # <<>> /\ o.storage = "raise"
             THEN ExceptionHandler(service_name, refresh_origin, o, <<>>, "Extraction failed: store")
             ELSE IF extraction_result.items # <<>> /\ o.storage = "none"
             THEN ExceptionHandler(service_name, refresh_origin, o, <<>>, "Extraction failed: AttributeError")
             ELSE LET storage_result ==
                          IF extraction_result.items # <<>>
                          THEN (IF o.storage = "nokey" THEN [stored |-> 0]
                                ELSE [success |-> o.storage = "ok"])
                          ELSE [success |-> FALSE,
                                error |-> "No deprecation items were extracted from any URLs"]
                      extraction_success ==
                          IF "success" \in DOMAIN storage_result
                          THEN storage_result.success ELSE FALSE
                      update == [service_name |-> service_name,
                                 success |-> extraction_success,
                                 refresh_origin |-> refresh_origin,
                                 extraction_duration |-> extraction_result.extraction_duration]
                  IN  IF o.meta[1] = "raise"
                      THEN ExceptionHandler(service_name, refresh_origin, o, <<update>>,
                                            "Extraction failed: meta")
                      ELSE [raised |-> FALSE,
                            updates |-> <<update>>,
                            result |-> [success |-> extraction_success,
                                        refresh_origin |-> refresh_origin,
                                        storage_result |-> storage_result,
                                        metadata_update |-> [success |-> o.meta[1] = "ok"]]
                                       @@ extraction_result]

InitOrchestrator ==
    /\ task = [w \in Workers |-> IdleTask]
    /\ analyzer = [w \in Workers |-> NewPromptAnalyzer]
    /\ scan = NoScan
    /\ corr = NoCorr
    /\ server = NoServer
    /\ \E s \in ServiceNames, r \in RefreshOrigins, e \in ExtractionOutcomes,
          st \in StorageOutcomes, m \in [1..MaxUpdateCalls -> MetadataOutcomes] :
           call = [pc |-> "call", fn |-> "extract_service_lifecycle",
                   input |-> [service_name |-> s, refresh_origin |-> r,
                              outcomes |-> [extraction |-> e, storage |-> st, meta |-> m]],
                   output |-> <<>>]

ExtractServiceLifecycle ==
    /\ call.pc = "call"
    /\ call.fn = "extract_service_lifecycle"
    /\ call' = [call EXCEPT
           !.pc = "done",
           !.output = extract_service_lifecycle(call.input.service_name,
                                                call.input.refresh_origin,
                                                call.input.outcomes)]
    /\ UNCHANGED <<task, analyzer, scan, corr, server>>

NextOrchestrator == ExtractServiceLifecycle

SpecOrchestrator == InitOrchestrator /\ [][NextOrchestrator]_vars


(***************************************************************************)
(* SpecCache: the cross-region caching detection applied to a text         *)
(***************************************************************************)
MaxCacheTextLen == 3

CacheAlphabet ==
    {NL, LexGlobalModel, LexUsModel, LexPlainModel, LexCacheControl, LexCachePoint,
     LexStaticPrompt, LexDynamicPrompt}

InitCache ==
    /\ task = [w \in Workers |-> IdleTask]
    /\ analyzer = [w \in Workers |-> NewPromptAnalyzer]
    /\ scan = NoScan
    /\ corr = NoCorr
    /\ server = NoServer
    /\ call \in {[pc |-> "call", fn |-> "caching_cross_region", input |-> t, output |-> <<>>] :
                    t \in SeqsUpTo(MaxCacheTextLen, CacheAlphabet)}

DetectCrossRegionCaching ==
    /\ call.pc = "call"
    /\ call.fn = "caching_cross_region"
    /\ call' = [call EXCEPT !.pc = "done",
                    !.output = _detect_caching_cross_region_antipattern(call.input, "a.py")]
    /\ UNCHANGED <<task, analyzer, scan, corr, server>>

NextCache == DetectCrossRegionCaching

SpecCache == InitCache /\ [][NextCache]_vars

(***************************************************************************)
(* SpecParse: the model-identifier parser applied to an identifier         *)
(***************************************************************************)
MaxVersionGroups == 2
MaxGarbageLen == 3

\* the numeral groups joined by "-"
HyphenJoin(groups) == JoinWith([k \in 1..Len(groups) |-> <<groups[k]>>], <<"-">>)

\* identifiers of the shapes provider.family-tier-V and provider.family-V-tier,
\* with or without region prefix, date, build tag and build counter; the
\* components are kept beside the identifier
ShapedIdentifiers ==
    {[id |-> pre \o <<prov, ".", "claude", "-">>
             \o (IF tier_first THEN <<tier, "-">> \o HyphenJoin(groups)
                 ELSE HyphenJoin(groups) \o <<"-", tier>>)
             \o date \o tag \o build,
      provider |-> prov, family |-> "claude", tier |-> tier, groups |-> groups] :
        pre \in {<<>>, <<"global", ".">>, <<"us", ".">>},
        prov \in {"anthropic", "newco"},
        tier \in {"sonnet", "haiku"},
        tier_first \in BOOLEAN,
        groups \in SeqsUpTo(MaxVersionGroups, Numerals) \ {<<>>},
        date \in {<<>>, <<"-", "20250929">>},
        tag \in {<<>>, <<"-", "v1">>},
        build \in {<<>>, <<":", "0">>}}

\* any short string of symbols
GarbageIdentifiers ==
    {[id |-> g, provider |-> None, family |-> None, tier |-> None, groups |-> <<>>] :
        g \in SeqsUpTo(MaxGarbageLen, {"anthropic", "newco", "global", "4", ".", "-", ":"})}

InitParse ==
    /\ task = [w \in Workers |-> IdleTask]
    /\ analyzer = [w \in Workers |-> NewPromptAnalyzer]
    /\ scan = NoScan
    /\ corr = NoCorr
    /\ server = NoServer
    /\ call \in {[pc |-> "call", fn |-> "parse_model_id", input |-> x, output |-> <<>>] :
                    x \in ShapedIdentifiers \cup GarbageIdentifiers}

ParseModelId ==
    /\ call.pc = "call"
    /\ call.fn = "parse_model_id"
    /\ call' = [call EXCEPT !.pc = "done", !.output = _parse_model_id(call.input.id)]
    /\ UNCHANGED <<task, analyzer, scan, corr, server>>

NextParse == ParseModelId

SpecParse == InitParse /\ [][NextParse]_vars

(***************************************************************************)
(* Lexical facts of a document, read off the token sequence                *)
(***************************************************************************)
\* the def/for/while nodes whose extent holds position i
Enclosing(doc, i) == {j \in 1..(i - 1) : IsOpen(doc[j]) /\ MatchEnd(doc, j) > i}

SetMax(S) == CHOOSE x \in S : \A y \in S : y <= x

\* position of the innermost def around i, 0 at module level
InnermostDef(doc, i) ==
    LET defs == {j \in Enclosing(doc, i) : doc[j].k = "def"}
    IN  IF defs = {} THEN 0 ELSE SetMax(defs)

\* position i lies in the body (not the iterable/test) of the loop at l
InBodyOf(doc, i, l) ==
    /\ l \in Enclosing(doc, i)
    /\ IsLoopTok(doc[l])
    /\ ~(doc[i].k = "call" /\ doc[i].hdr /\ l = SetMax(Enclosing(doc, i)))

IsLLMCallAt(doc, i) == doc[i].k = "call" /\ _is_llm_api_call(doc[i].callee)

\* the def at d holds a recognized call in the body of a loop of its own
HasLoopCall(doc, d) ==
    \E i \in 1..Len(doc) :
        /\ IsLLMCallAt(doc, i)
        /\ InnermostDef(doc, i) = d
        /\ \E l \in (d + 1)..(i - 1) : InBodyOf(doc, i, l)

DefNames(doc) == {doc[j].name : j \in {x \in 1..Len(doc) : doc[x].k = "def"}}

CountWhere(findings, P(_)) == Cardinality({i \in 1..Len(findings) : P(findings[i])})

BuilderTypes == {"recurring_prompt_with_static_content", "prompt_builder_function_detected"}

\* the document holds a call that CallCounter counts under the name n
IsCalled(doc, n) ==
    \E i \in 1..Len(doc) : doc[i].k = "call" /\ CallCounterName(doc[i]) = NameOf(n)

\* a def named n that the analyzer records as a prompt builder
IsDetectedBuilder(doc, n) ==
    \E d \in 1..Len(doc) :
        /\ doc[d].k = "def" /\ doc[d].name = n
        /\ _is_prompt_builder(n)
        /\ _analyze_prompt_function(doc, d) # <<>>

(***************************************************************************)
(* Claims on SpecWalk                                                      *)
(***************************************************************************)
\* C8: for every function name of the document, analyze returns exactly one
\* llm_api_call_in_loop finding naming it when a definition of that name
\* holds a recognized inference call inside the body of a for/while of its
\* own, and none otherwise.
C8_OneLoopFindingPerFunction ==
    WalkDone =>
        \A n \in DefNames(WalkDoc) :
            CountWhere(WalkResult,
                       LAMBDA f : f.type = "llm_api_call_in_loop" /\ f.function_name = n)
            = IF \E d \in 1..Len(WalkDoc) :
                    WalkDoc[d].k = "def" /\ WalkDoc[d].name = n /\ HasLoopCall(WalkDoc, d)
              THEN 1 ELSE 0

\* C9: a reported prompt builder is of the large-static-content kind exactly
\* when the literal characters of the f-strings of its definition, divided
\* by 4 and rounded down, exceed 50; exactly 50 gives the small-content
\* kind, 51 the large-content kind.
C9_StrictThreshold ==
    WalkDone =>
        \A i \in 1..Len(WalkResult) :
            WalkResult[i].type \in BuilderTypes =>
                LET d == WalkResult[i].line
                    est == SumLiteral(WalkDoc, d + 1, MatchEnd(WalkDoc, d) - 1) \div 4
                IN  /\ WalkResult[i].estimated_static_tokens = est
                    /\ (WalkResult[i].type = "recurring_prompt_with_static_content") <=> (est > 50)
                    /\ est = 50 => WalkResult[i].type = "prompt_builder_function_detected"
                    /\ est = 51 => WalkResult[i].type = "recurring_prompt_with_static_content"

\* a called builder of exactly 50 estimated tokens was reported as small
C9_Witness ==
    /\ WalkDone
    /\ \E i \in 1..Len(WalkResult) :
          /\ WalkResult[i].type = "prompt_builder_function_detected"
          /\ WalkResult[i].estimated_static_tokens = 50

\* C10: a detected prompt builder yields a finding only if the document calls
\* it: no finding when it is never called, and exactly one finding, of one
\* of the two prompt-builder kinds, when it is called.
C10_OnlyCalledBuildersReported ==
    WalkDone =>
        \A n \in DefNames(WalkDoc) :
            IsDetectedBuilder(WalkDoc, n) =>
                /\ CountWhere(WalkResult, LAMBDA f : f.type \in BuilderTypes /\ f.function_name = n)
                   = IF IsCalled(WalkDoc, n) THEN 1 ELSE 0
                /\ CountWhere(WalkResult, LAMBDA f : f.type \notin BuilderTypes /\ f.function_name = n)
                   = 0

\* a detected builder that is never called went through analyze
C10_Witness ==
    /\ WalkDone
    /\ \E n \in DefNames(WalkDoc) : IsDetectedBuilder(WalkDoc, n) /\ ~IsCalled(WalkDoc, n)
    /\ WalkResult = <<>>

(***************************************************************************)
(* Claims on SpecCorr and SpecScan                                         *)
(***************************************************************************)
\* C1: the correlation pass only appends: its output starts with the input
\* findings, in the same order and with every field unchanged, and every
\* record after them is a cross_service_cost_impact finding.
C1_CorrelateOnlyAppends ==
    corr.pc = "done" =>
        /\ Len(corr.output) >= Len(corr.input)
        /\ \A i \in 1..Len(corr.input) : corr.output[i] = corr.input[i]
        /\ \A i \in (Len(corr.input) + 1)..Len(corr.output) :
              corr.output[i].type = "cross_service_cost_impact"

\* the pass ran on a non-empty list and synthesized a finding
C1_Witness ==
    /\ corr.pc = "done"
    /\ corr.input # <<>>
    /\ Len(corr.output) > Len(corr.input)

\* the file of the scan is unreadable
Unreadable(f) == ~f.readable

\* the findings file f contributes to the scan on its own
OwnFindings(f) == _analyze_file_internal(f).findings

\* f's own findings hold an agent-runtime finding and a streaming-call finding
Qualifies(f) ==
    /\ \E i \in 1..Len(OwnFindings(f)) :
          "service" \in DOMAIN OwnFindings(f)[i]
          /\ OwnFindings(f)[i].service = "bedrock-agentcore"
    /\ \E i \in 1..Len(OwnFindings(f)) :
          /\ "type" \in DOMAIN OwnFindings(f)[i]
          /\ OwnFindings(f)[i].type = "bedrock_api_call"
          /\ "pattern" \in DOMAIN OwnFindings(f)[i]
          /\ OwnFindings(f)[i].pattern = "streaming"

IsCross(r) == "type" \in DOMAIN r /\ r.type = "cross_service_cost_impact"

\* C2: the result of a scan holds exactly one cross_service_cost_impact
\* finding for each file whose own findings include a bedrock-agentcore
\* finding and a streaming bedrock_api_call finding, and none for any other
\* file: findings of different files never combine.
C2_CrossFindingPerQualifyingFile ==
    scan.pc = "returned" =>
        /\ \A k \in 1..Len(scan.files) :
              CountWhere(scan.result.findings,
                         LAMBDA r : IsCross(r) /\ r.file = scan.files[k].path)
              = IF Qualifies(scan.files[k]) THEN 1 ELSE 0
        /\ \A i \in 1..Len(scan.result.findings) :
              IsCross(scan.result.findings[i]) =>
                  \E k \in 1..Len(scan.files) :
                      scan.files[k].path = scan.result.findings[i].file

\* a scan of two files returned: one has only the agent-runtime finding, the
\* other only the streaming call, and no cross-cutting finding was made
C2_Witness ==
    /\ scan.pc = "returned"
    /\ Len(scan.files) = 2
    /\ scan.files[1].text = <<LexApp>>
    /\ scan.files[2].text = <<LexStream>>
    /\ scan.files[1].readable /\ scan.files[2].readable
    /\ ~\E i \in 1..Len(scan.result.findings) : IsCross(scan.result.findings[i])

\* C3: a scan runs to completion whatever files cannot be read or fail a
\* detector's parse step: it never leaves by an exception, and when it
\* returns the status is success and every file has been handed to the
\* detectors.
C3_ScanRunsToCompletion ==
    /\ scan.pc # "raised"
    /\ scan.pc = "returned" =>
          /\ scan.result.status = "success"
          /\ scan.result.files_scanned = Len(scan.files)

\* the findings and the count a scan over `files` returns when it completes
RECURSIVE CollectFindings(_, _)
CollectFindings(files, i) ==
    IF i > Len(files) THEN <<>>
    ELSE OwnFindings(files[i]) \o CollectFindings(files, i + 1)

\* C4: an unreadable file contributes no record: the findings and
\* total_findings of the result are those of the scan of the other files.
C4_UnreadableFileContributesNothing ==
    scan.pc = "returned" =>
        LET others == SelectSeq(scan.files, LAMBDA f : f.readable)
            expected == _correlate_findings(CollectFindings(others, 1))
        IN  /\ scan.result.total_findings = Len(expected)
            /\ scan.result.findings = add_file_links_to_findings(expected)

(***************************************************************************)
(* Claims about repeated and concurrent analyze calls                      *)
(***************************************************************************)
\* what a first call on a newly constructed detector returns
FreshResult(det, c) ==
    CASE det = "prompt_engineering" -> PromptEngineeringAnalyze(c).findings
      [] det = "agentcore" -> AgentCoreAnalyzeFrom(<<>>, c.text, c.path)
      [] OTHER -> VscAnalyze(c, Suffix(c.path)).findings

\* C5: after any sequence of earlier analyze calls on the same detector
\* instances, a call returns exactly the finding list (same findings, same
\* order) that a first call with the same content on a fresh detector returns
C5_LaterCallEqualsFreshCall ==
    task["w1"].pc = "done" =>
        task["w1"].result = FreshResult(task["w1"].det, task["w1"].content)

\* a second PromptEngineeringDetector call that returned findings after an
\* earlier call that returned other findings
C5_Witness ==
    /\ task["w1"].pc = "done"
    /\ task["w1"].calls >= 2
    /\ task["w1"].det = "prompt_engineering"
    /\ task["w1"].prev # <<>>
    /\ task["w1"].result # <<>>
    /\ task["w1"].result # task["w1"].prev

\* C6: when two analyses run concurrently on the same detector, in any
\* interleaving of their steps, each returns the findings that analysing its
\* file alone returns
C6_ConcurrentEqualsAlone ==
    \A w \in Workers :
        task[w].pc = "done" =>
            task[w].result = PromptEngineeringAnalyze(task[w].content).findings

\* both analyses finished with findings, and each took a step of its walk
\* while the other was walking
C6_Witness ==
    \A w \in Workers :
        /\ task[w].pc = "done"
        /\ task[w].overlap
        /\ task[w].result # <<>>
        /\ \A v \in Others(w) : task[v].result # task[w].result

\* content that is not syntactically valid Python
InvalidPython(c) == c.parse # "ok"

\* C7: on content that is not valid Python the syntax-tree-based detectors
\* return an empty finding list without raising, and AgentCoreDetector still
\* returns the findings its patterns match
C7_InvalidPythonGivesEmptyList ==
    InvalidPython(task["w1"].content) =>
        /\ task["w1"].det \in {"prompt_engineering", "vsc"} =>
              /\ task["w1"].pc # "raised"
              /\ task["w1"].pc = "done" => task["w1"].result = <<>>
        /\ (task["w1"].det = "agentcore" /\ task["w1"].pc = "done") =>
              /\ (\E i \in 1..Len(task["w1"].result) :
                      task["w1"].result[i].type = "agentcore_app_detected")
                 <=> Matches(task["w1"].content.text, {LexApp, LexImport}) # {}
              /\ Cardinality({i \in 1..Len(task["w1"].result) :
                                  task["w1"].result[i].type = "agentcore_decorator"})
                 = Cardinality(Matches(task["w1"].content.text, {LexEntrypoint}))

(***************************************************************************)
(* Claims about the false-positive checks                                  *)
(***************************************************************************)
\* the string literal open after the lexemes from..to of one line, read as a
\* lexer reads them: "none", "sq" or "dq"
RECURSIVE QuoteState(_, _, _, _)
QuoteState(text, from, to, st) ==
    IF from > to THEN st
    ELSE LET lex == text[from]
             nxt == CASE lex = LexSQ /\ st = "none" -> "sq"
                      [] lex = LexSQ /\ st = "sq" -> "none"
                      [] lex \in {LexDQ, LexInvoke, LexErrorBody} /\ st = "none" -> "dq"
                      [] lex \in {LexDQ, LexInvoke, LexErrorBody} /\ st = "dq" -> "none"
                      [] OTHER -> st
         IN  QuoteState(text, from + 1, to, nxt)

OnLine(text, i) == {text[j] : j \in LineStart(text, i)..LineEnd(text, i + 1)}

\* the identifier at i sits inside a quoted string of its line, and the line
\* holds the word "pattern" or "e.g."
InQuotedCueString(text, i) ==
    /\ QuoteState(text, LineStart(text, i), i - 1, "none") # "none"
    /\ text[i - 1] # LexInvoke
    /\ OnLine(text, i) \cap {LexCuePattern, LexCueEg} # {}

\* the identifier at i is the argument of an invocation call that is code:
\* the call starts outside any string, comment and docstring
IsInvocationArgument(text, i) ==
    /\ i > 1
    /\ text[i - 1] = LexInvoke
    /\ QuoteState(text, LineStart(text, i), i - 2, "none") = "none"
    /\ \A j \in LineStart(text, i)..(i - 2) : text[j] # LexHash
    /\ \A j \in 1..(i - 1) : text[j] # LexTripleDQ

\* C11: a model identifier that occurs only inside a quoted string on a line
\* with the word "pattern" or "e.g." gives no model-usage finding, and the
\* same identifier passed as the argument of an invocation call gives
\* exactly one
C11_SuppressedInMessageReportedInCall ==
    call.pc = "done" /\ call.fn = "bedrock_model_usage" =>
        LET ids == Matches(call.input, {LexModelId})
        IN  /\ (ids # {} /\ \A i \in ids : InQuotedCueString(call.input, i))
                  => call.output = <<>>
            /\ \A i \in ids :
                  (ids = {i} /\ IsInvocationArgument(call.input, i))
                      => Len(call.output) = 1

(***************************************************************************)
(* Claims about the cross-region caching finding and the parser            *)
(***************************************************************************)
\* the severity the decision table gives to the identifier at position i of
\* the text, "none" when the table gives no finding
TableSeverity(text, i) ==
    LET caching == \E j \in 1..Len(text) : text[j] \in {LexCacheControl, LexCachePoint}
        dynamic == \E j \in 1..Len(text) : text[j] = LexDynamicPrompt
    IN  CASE text[i] = LexPlainModel -> "none"
          [] ~caching -> "none"
          [] ~dynamic -> "info"
          [] text[i] = LexGlobalModel -> "high"
          [] OTHER -> "medium"

\* C12: the cross-region caching findings of a text are those of the decision
\* table: one per identifier for which the table gives a severity, in the
\* order of the text, with the line and the severity of the table
C12_SeverityFollowsDecisionTable ==
    call.pc = "done" /\ call.fn = "caching_cross_region" =>
        LET text == call.input
            ms == Ascending({i \in Matches(text, ModelLexemes) :
                                TableSeverity(text, i) # "none"})
        IN  /\ Len(call.output) = Len(ms)
            /\ \A n \in 1..Len(ms) :
                  /\ call.output[n].severity = TableSeverity(text, ms[n])
                  /\ call.output[n].line = LineOf(text, ms[n])
                  /\ call.output[n].model_id = text[ms[n]]

\* a text with a caching hint, a dynamic prompt and a global identifier, and
\* its finding of severity high
C12_Witness ==
    /\ call.pc = "done"
    /\ call.fn = "caching_cross_region"
    /\ \E j \in 1..Len(call.input) : call.input[j] = LexDynamicPrompt
    /\ \E n \in 1..Len(call.output) :
          call.output[n].severity = "high" /\ call.output[n].model_id = LexGlobalModel

ParseDone == call.pc = "done" /\ call.fn = "parse_model_id"

\* C13: for an identifier whose version is hyphen-separated numeral groups
\* next to a tier word, the parser yields the provider, the family, the tier
\* and, as version, those groups in their order with a "." between two of
\* them; date, build tag and build counter are not part of it
C13_VersionKeepsGroupsInOrder ==
    (ParseDone /\ call.input.groups # <<>>) =>
        /\ call.output.provider = <<call.input.provider>>
        /\ call.output.family = <<call.input.family>>
        /\ call.output.tier = <<call.input.tier>>
        /\ Len(call.output.version) = 2 * Len(call.input.groups) - 1
        /\ \A k \in 1..Len(call.output.version) :
              call.output.version[k] =
                  IF k % 2 = 1 THEN call.input.groups[(k + 1) \div 2] ELSE "."

\* a parsed identifier with region prefix, the tier before a version of two
\* groups, and date, build tag and build counter after it
C13_Witness ==
    /\ ParseDone
    /\ Len(call.input.groups) >= 2
    /\ call.input.id[1] = "global"
    /\ call.input.id[Len(call.input.id)] = "0"
    /\ \E k \in 1..Len(call.input.id) : call.input.id[k] = "20250929"
    /\ call.output.version = <<call.input.groups[1], ".", call.input.groups[2]>>
                                \o SubSeq(call.output.version, 4, Len(call.output.version))

\* C14: the parser gives a result for every input; every field of it is a
\* string or null, and for an input of the form provider.rest the provider
\* and the family are not null
C14_ParserAlwaysGivesPartialResult ==
    ParseDone =>
        /\ DOMAIN call.output =
              {"provider", "family", "version", "tier", "region_prefix", "is_cross_region"}
        /\ \A f \in {"provider", "family", "version", "tier", "region_prefix"} :
              call.output[f] = Null \/ Len(call.output[f]) >= 1
        /\ IsProviderDotRest(call.input.id) =>
              /\ call.output.provider # Null
              /\ call.output.family # Null

\* an identifier provider.rest of an unknown provider, parsed to its provider
\* and family with the version left null
C14_Witness ==
    /\ ParseDone
    /\ IsProviderDotRest(call.input.id)
    /\ call.input.id[1] = "newco"
    /\ call.output.provider = <<"newco">>
    /\ call.output.family # Null
    /\ call.output.version = Null

(***************************************************************************)
(* Claims about the scan result                                            *)
(***************************************************************************)
\* C15: a finding collected by the scan keeps every field it was emitted
\* with; the only field added to it is file_link, and it is added once, when
\* detection has finished: no finding carries it while files are analysed
C15_FindingsOnlyGainLinkAfterDetection ==
    /\ scan.pc = "scanning" =>
          \A i \in 1..Len(scan.findings) : "file_link" \notin DOMAIN scan.findings[i]
    /\ scan.pc = "returned" =>
          \A i \in 1..Len(scan.findings) :
              /\ DOMAIN scan.result.findings[i] \ {"file_link"}
                    = DOMAIN scan.findings[i] \ {"file_link"}
              /\ \A x \in DOMAIN scan.findings[i] \ {"file_link"} :
                    scan.result.findings[i][x] = scan.findings[i][x]

\* a record of the result list that is a Finding: it has a kind
IsFindingRecord(r) == "type" \in DOMAIN r

\* C16: in a successful scan result total_findings is the number of Finding
\* records of the list (detector findings and synthesized cross-cutting
\* findings) and files_scanned is the number of files handed to the
\* detectors; an empty tree gives zero and zero with status success
C16_SummaryAgreesWithList ==
    scan.pc = "returned" =>
        /\ scan.result.status = "success"
        /\ scan.result.total_findings = Len(scan.result.findings)
        /\ scan.result.total_findings =
              Cardinality({i \in 1..Len(scan.result.findings) :
                              IsFindingRecord(scan.result.findings[i])})
        /\ scan.result.files_scanned =
              Cardinality({i \in 1..Len(scan.files) : scan.files[i].readable})
        /\ scan.files = <<>> =>
              scan.result.total_findings = 0 /\ scan.result.files_scanned = 0

\* C17: every finding of AgentCoreDetector.analyze that comes from a regex
\* match carries a file and a line, and the line is one plus the number of
\* newlines before the start of a match of one of the detector's patterns.
C17_RegexFindingsCarryFileAndLine ==
    call.pc = "done" /\ call.fn = "agentcore_analyze" =>
        \A n \in 1..Len(call.output) :
            /\ "file" \in DOMAIN call.output[n]
            /\ "line" \in DOMAIN call.output[n]
            /\ \E i \in 1..Len(call.input) :
                  /\ call.input[i] \notin {NL, LexFiller}
                  /\ call.output[n].line = LineOf(call.input, i)

OncePerFileKinds ==
    {"agentcore_session_management", "agentcore_authentication", "agentcore_streaming",
     "agentcore_async_processing", "agentcore_stop_session_detected"}

\* C20: one analyze call of AgentCoreDetector emits at most one finding of
\* each once-per-file kind, however many patterns and occurrences match.
C20_OncePerFileKindsEmittedAtMostOnce ==
    call.pc = "done" /\ call.fn = "agentcore_analyze" =>
        \A kind \in OncePerFileKinds :
            Cardinality({n \in 1..Len(call.output) : call.output[n].type = kind}) <= 1

\* the scan_project requests with estimate_only false made before request n
FullScansBefore(n) ==
    {k \in 1..(n - 1) : /\ server.log[k].request = "scan_project"
                        /\ ~server.log[k].estimate_only}

\* C18: every read of scan://latest returns the result of the most recent
\* scan_project request made with estimate_only false, or the "No scans
\* performed yet" error when there has been none; analyze_file and
\* estimate-only requests in between do not change it.
C18_LatestIsMostRecentFullScan ==
    \A n \in 1..Len(server.log) :
        server.log[n].request = "scan://latest" =>
            IF FullScansBefore(n) = {}
            THEN server.log[n].response = [error |-> "No scans performed yet"]
            ELSE LET k == CHOOSE x \in FullScansBefore(n) :
                              \A y \in FullScansBefore(n) : y <= x
                 IN  /\ ~server.log[k].raised
                     /\ server.log[n].response = server.log[k].response

\* C19: for any username, the run of initiate_password_reset in which the
\* account exists and the run in which it does not return the same message.
C19_MessageIndependentOfAccount ==
    call.pc = "done" /\ call.fn = "initiate_password_reset" =>
        call.output.exists = call.output.absent

(***************************************************************************)
(* Claims about the traversal state of PromptAnalyzer                      *)
(***************************************************************************)
IsLoopFinding(f) == f.type = "llm_api_call_in_loop"

\* the def above position i has a loop of its own whose body holds i
InLoopBodyOfOwnFunction(doc, i) ==
    \E l \in (InnermostDef(doc, i) + 1)..(i - 1) : InBodyOf(doc, i, l)

\* C21: the call that an llm_api_call_in_loop finding reports lies in the
\* body of a for or while loop of its enclosing function; a recognized call
\* after a loop, in a loop's iterable or test, or in a function that is only
\* defined inside a loop body, produces no finding.
C21_NoFindingOutsideLoopBody ==
    WalkDone =>
        \A n \in 1..Len(WalkResult) :
            IsLoopFinding(WalkResult[n]) =>
                /\ IsLLMCallAt(WalkDoc, WalkResult[n].line)
                /\ InLoopBodyOfOwnFunction(WalkDoc, WalkResult[n].line)

\* the for/while nodes around position i
LoopsAround(doc, i) == {l \in Enclosing(doc, i) : IsLoopTok(doc[l])}

\* C22: loop_type of an llm_api_call_in_loop finding is the kind ("for" or
\* "while") of the innermost loop around the reported call.
C22_LoopTypeNamesInnermostLoop ==
    WalkDone =>
        \A n \in 1..Len(WalkResult) :
            IsLoopFinding(WalkResult[n]) =>
                /\ LoopsAround(WalkDoc, WalkResult[n].line) # {}
                /\ WalkResult[n].loop_type =
                      WalkDoc[SetMax(LoopsAround(WalkDoc, WalkResult[n].line))].k

\* the loops entered and not yet left when the node at position p is visited
OpenLoopsAt(doc, p) == {j \in 1..(p - 1) : IsLoopTok(doc[j]) /\ MatchEnd(doc, j) >= p}

\* C29: while the tree is traversed, loop_depth is the number of for/while
\* statements around the node being visited and in_loop is TRUE exactly when
\* loop_depth > 0; at the end of the traversal they are 0 and FALSE again.
C29_LoopDepthCountsEnclosingLoops ==
    /\ task["w1"].pc = "visiting" =>
          /\ analyzer["w1"].loop_depth =
                Cardinality(OpenLoopsAt(task["w1"].content.ast, task["w1"].pos))
          /\ analyzer["w1"].in_loop <=> analyzer["w1"].loop_depth > 0
    /\ WalkDone =>
          /\ analyzer["w1"].loop_depth = 0
          /\ ~analyzer["w1"].in_loop

\* inside two loops with a function definition between them
C29_Witness ==
    /\ task["w1"].pc = "visiting"
    /\ analyzer["w1"].loop_depth = 2
    /\ analyzer["w1"].in_loop
    /\ \E d \in Enclosing(task["w1"].content.ast, task["w1"].pos) :
          /\ task["w1"].content.ast[d].k = "def"
          /\ Cardinality(OpenLoopsAt(task["w1"].content.ast, d)) = 1

RuntimeCallLexemes == {LexCreateRuntime, LexUpdateRuntime}

ApiNameOf(lex) ==
    IF lex = LexCreateRuntime THEN "create_agent_runtime" ELSE "update_agent_runtime"

\* the nesting depth of the tokens of a text after position i, as the
\* language reads it: parentheses inside string literals and comments do not
\* count
RECURSIVE LexicalCloseFrom(_, _, _)
LexicalCloseFrom(text, pos, depth) ==
    IF pos > Len(text) THEN 0
    ELSE IF text[pos] \in RuntimeCallLexemes THEN LexicalCloseFrom(text, pos + 1, depth + 1)
    ELSE IF text[pos] = LexCloseParen
         THEN (IF depth = 1 THEN pos ELSE LexicalCloseFrom(text, pos + 1, depth - 1))
    ELSE LexicalCloseFrom(text, pos + 1, depth)

\* the closing parenthesis of the call at position i, 0 when it is not closed
LexicalClose(text, i) == LexicalCloseFrom(text, i + 1, 1)

ClosedCalls(text) ==
    {i \in Matches(text, RuntimeCallLexemes) : LexicalClose(text, i) # 0}

ArgumentInside(text, i) ==
    \E j \in (i + 1)..(LexicalClose(text, i) - 1) : text[j] = LexLifecycleArg

MissingFindings(out, name, line) ==
    {k \in 1..Len(out) : /\ out[k].type = "agentcore_lifecycle_missing"
                         /\ out[k].api_call = name
                         /\ out[k].line = line}

CallsWithoutArgument(text, name, line) ==
    {i \in Matches(text, RuntimeCallLexemes) :
        /\ ApiNameOf(text[i]) = name
        /\ LineOf(text, i) = line
        /\ ~ArgumentInside(text, i)}

\* C23: in a Python file whose create_agent_runtime / update_agent_runtime
\* calls are all closed, the agentcore_lifecycle_missing findings are exactly
\* the calls that have no lifecycleConfiguration argument between their
\* opening parenthesis and its matching closing parenthesis: for every api
\* name and line, as many findings as there are such calls.
C23_MissingIffNoArgumentInsideCall ==
    (/\ call.fn = "runtime_api"
     /\ call.pc = "done"
     /\ IsPythonPath(call.input.path)
     /\ ClosedCalls(call.input.text) = Matches(call.input.text, RuntimeCallLexemes))
    => \A name \in {"create_agent_runtime", "update_agent_runtime"} :
           \A line \in 1..(Len(call.input.text) + 1) :
               Cardinality(MissingFindings(call.output, name, line))
                   = Cardinality(CallsWithoutArgument(call.input.text, name, line))

LaunchLexemes == {LexLaunch, LexLaunchLocal, LexLaunchLocalBuild}

\* the deployment type of a launch command: by the flag that follows
DeploymentTypeOf(lex) ==
    CASE lex = LexLaunch -> "direct_deploy"
      [] lex = LexLaunchLocal -> "local_dev"
      [] lex = LexLaunchLocalBuild -> "hybrid_build"

DeploymentFindings(out, line) ==
    {k \in 1..Len(out) : out[k].type = "agentcore_deployment" /\ out[k].line = line}

\* C28: every agentcore launch command of the content yields exactly one
\* agentcore_deployment finding, of the deployment type of its flag
\* (direct_deploy, local_dev for --local, hybrid_build for --local-build):
\* on every line, as many findings as commands, and as many findings of each
\* type as commands of that type.
C28_OneDeploymentFindingPerCommand ==
    (call.fn = "agentcore_analyze" /\ call.pc = "done")
    => \A line \in 1..(Len(call.input) + 1) :
           /\ Cardinality(DeploymentFindings(call.output, line))
                  = Cardinality({i \in Matches(call.input, LaunchLexemes) :
                                    LineOf(call.input, i) = line})
           /\ \A lex \in LaunchLexemes :
                  Cardinality({k \in DeploymentFindings(call.output, line) :
                                  call.output[k].deployment_type = DeploymentTypeOf(lex)})
                      = Cardinality({i \in Matches(call.input, {lex}) :
                                        LineOf(call.input, i) = line})

(***************************************************************************)
(* Claims about the false-positive checks of BaseDetector                  *)
(***************************************************************************)
CheckDone == call.fn = "false_positive" /\ call.pc = "done"

\* the delimiters of each kind of block: a triple-quoted docstring, a block
\* comment
BlockDelimiters == << {LexTripleDQ}, {LexBlockOpen} >>

\* a block of kind k is still open at the match: an odd number of its
\* delimiters occurs before the match in the document
OpenBlockAt(text, m, k) ==
    Cardinality({j \in 1..(m - 1) : text[j] \in BlockDelimiters[k]}) % 2 = 1

\* C24: the in-docstring check suppresses a match exactly when a block, a
\* triple-quoted docstring or a block comment, is still open at the match
\* offset (odd number of its delimiters before the match); a match preceded
\* only by closed blocks is not suppressed by this check.
C24_SuppressedIffInsideOpenBlock ==
    CheckDone
    => (call.output.in_docstring
            <=> \E k \in 1..Len(BlockDelimiters) :
                    OpenBlockAt(call.input.text, call.input.match_start, k))

\* the single-line-comment marker of the language of a file
CommentMarkerOf(path) == IF IsPythonPath(path) THEN LexHash ELSE LexSlashes

\* C25: the in-comment check suppresses a match exactly when the
\* single-line-comment marker of the file's own language (# for Python, //
\* for TypeScript and JavaScript) occurs between the start of the match's
\* line and the match.
C25_SuppressedIffOwnMarkerBeforeMatchOnLine ==
    CheckDone
    => (call.output.in_comment
            <=> \E j \in LineStart(call.input.text, call.input.match_start)
                             ..(call.input.match_start - 1) :
                    call.input.text[j] = CommentMarkerOf(call.input.path))

\* the string literal open after the quote characters of a line, read from
\* left to right: a quote opens a literal when none is open and closes the
\* literal that its own kind opened; "none" when every literal is closed
RECURSIVE OpenQuoteAfter(_, _, _, _)
OpenQuoteAfter(text, from, to, open) ==
    IF from > to THEN open
    ELSE IF text[from] \in {LexSQ, LexDQ}
         THEN OpenQuoteAfter(text, from + 1, to,
                             IF open = "none" THEN text[from]
                             ELSE IF open = text[from] THEN "none" ELSE open)
         ELSE OpenQuoteAfter(text, from + 1, to, open)

\* the text of the line before the match holds quotes and words only
PlainLineBefore(text, m) ==
    \A j \in LineStart(text, m)..(m - 1) : text[j] \in {LexSQ, LexDQ, LexCuePattern, LexModelId}

InStringLiteral(text, m) == OpenQuoteAfter(text, LineStart(text, m), m - 1, "none") # "none"

CueOnLine(text, m) ==
    \E j \in LineStart(text, m)..LineEnd(text, m + 1) : text[j] = LexCuePattern

\* C26: the in-validation-string check suppresses a match exactly when the
\* match starts inside a quoted string literal on its line and the line
\* contains a cue word; a match outside every string literal is never
\* suppressed by this check, even on a line that contains a cue word.
C26_SuppressedIffInStringWithCue ==
    (CheckDone /\ PlainLineBefore(call.input.text, call.input.match_start))
    => (call.output.in_string
            <=> /\ InStringLiteral(call.input.text, call.input.match_start)
                /\ CueOnLine(call.input.text, call.input.match_start))

(***************************************************************************)
(* Claims about extract_service_lifecycle                                  *)
(***************************************************************************)
OrchestratorDone == call.fn = "extract_service_lifecycle" /\ call.pc = "done"

\* C27: for every outcome of extraction, storage and metadata update, an
\* Exception raised by any of them included, extract_service_lifecycle does
\* not raise, has called update_service_metadata at least once, and returns
\* a result dictionary with a metadata_update entry.
C27_NeverRaisesAndAlwaysUpdatesMetadata ==
    OrchestratorDone
    => /\ ~call.output.raised
       /\ Len(call.output.updates) >= 1
       /\ "metadata_update" \in DOMAIN call.output.result

\* storage succeeded, the metadata update after it raised and the update of
\* the exception handler raised again
C27_Witness ==
    /\ OrchestratorDone
    /\ call.input.outcomes.extraction = "items"
    /\ call.input.outcomes.storage = "ok"
    /\ call.input.outcomes.meta = <<"raise", "raise">>
    /\ Len(call.output.updates) = 2
    /\ call.output.result.metadata_update = CouldNotUpdate

====
